---------------------------- MODULE Spec2Model ----------------------------
(***************************************************************************)
(* Semantic memory engine of the assistant: text chunking, embedding,      *)
(* the chunk store (in-memory array or the semantic_memory table) and the  *)
(* similarity + recency ranking.                                           *)
(*                                                                         *)
(* Strings are sequences of one-character strings.  Numbers that the code  *)
(* holds as doubles are held as integers in fixed point: a score s of the  *)
(* code is the integer s * Scale, a finalScore is s * Scale * 10.  Time is *)
(* counted in days (the code counts milliseconds).                         *)
(***************************************************************************)
EXTENDS Integers, Sequences, FiniteSets, TLC

(***************************************************************************)
(* Bounds of the model.                                                    *)
(***************************************************************************)
MaxLen == 4          \* longest input string given to chunkText on its own
MaxSize == 3         \* largest chunk size given to chunkText on its own

Min(a, b) == IF a <= b THEN a ELSE b
Max(a, b) == IF a >= b THEN a ELSE b

(***************************************************************************)
(* Characters.  Whitespace is what String.prototype.trim strips and what   *)
(* the regular expression class \s matches (the two sets are the same).    *)
(***************************************************************************)
Whitespace == {" ", "\t"}
Chars == {"a", "b"} \cup Whitespace

RECURSIVE StringsUpTo(_)
StringsUpTo(n) ==
  IF n = 0 THEN {<<>>}
  ELSE LET shorter == StringsUpTo(n - 1)
       IN  shorter \cup {Append(s, c) : s \in {t \in shorter : Len(t) = n - 1}, c \in Chars}

(***************************************************************************)
(* text.trim()                                                             *)
(***************************************************************************)
RECURSIVE trimStart(_)
trimStart(s) ==
  IF s = <<>> THEN <<>>
  ELSE IF Head(s) \in Whitespace THEN trimStart(Tail(s)) ELSE s

RECURSIVE trimEnd(_)
trimEnd(s) ==
  IF s = <<>> THEN <<>>
  ELSE IF s[Len(s)] \in Whitespace THEN trimEnd(SubSeq(s, 1, Len(s) - 1)) ELSE s

trim(s) == trimEnd(trimStart(s))

(***************************************************************************)
(* s.replace(/\s+/g, " "): every maximal run of whitespace becomes one     *)
(* space.                                                                  *)
(***************************************************************************)
RECURSIVE collapseWhitespace(_)
collapseWhitespace(s) ==
  IF s = <<>> THEN <<>>
  ELSE IF Head(s) \in Whitespace
       THEN <<" ">> \o collapseWhitespace(trimStart(s))
       ELSE <<Head(s)>> \o collapseWhitespace(Tail(s))

\* a faulty normalize: the text is trimmed, its whitespace runs are kept
normalizeTrimOnly(text) == trim(text)

normalize(text) == collapseWhitespace(trim(text))

(***************************************************************************)
(* normalized.slice(start, end) for 0 <= start <= end <= length            *)
(***************************************************************************)
slice(s, start, end) == SubSeq(s, start + 1, end)

(***************************************************************************)
(* One iteration of the while loop of chunkText: the end index of the      *)
(* segment that starts at start, and the start of the next one.            *)
(***************************************************************************)
\* a faulty chunkEnd: the segment runs one character past size
chunkEndOverlong(start, size, length) == Min(start + size + 1, length)

chunkEnd(start, size, length) == Min(start + size, length)

\* a faulty nextStart: the character at end is skipped
nextStartSkipping(end) == end + 1

nextStart(end) == end

(***************************************************************************)
(* chunkText(text, size) as a function of its arguments, for size >= 1.    *)
(***************************************************************************)
RECURSIVE chunkFrom(_, _, _)
chunkFrom(normalized, start, size) ==
  IF ~(start < Len(normalized)) THEN <<>>
  ELSE LET end == chunkEnd(start, size, Len(normalized))
       IN  <<slice(normalized, start, end)>> \o chunkFrom(normalized, nextStart(end), size)

\* a faulty chunkText: no return of [] for an empty normalized text
chunkTextOfAnything(text, size) ==
  LET normalized == normalize(text)
  IN  IF Len(normalized) <= size THEN <<normalized>> ELSE chunkFrom(normalized, 0, size)

chunkText(text, size) ==
  LET normalized == normalize(text)
  IN  IF normalized = <<>> THEN <<>> ELSE chunkFrom(normalized, 0, size)

(***************************************************************************)
(* Program constants.                                                      *)
(***************************************************************************)
VectorLength == 32        \* new Array<number>(32) of fallbackEmbedding
ColumnDimension == 3072   \* embedding vector(3072) of table semantic_memory
WindowDays == 30          \* 1000 * 60 * 60 * 24 * 30 milliseconds, in days
SimilarityTenths == 8     \* similarityScore * 0.8
RecencyTenths == 2        \* recencyScore * 0.2
ThresholdTenths == 2      \* match_threshold: 0.2

\* One unit of a score is 1 / Scale; a multiple of WindowDays, so that the
\* recency of an age of whole days is exact.
Scale == 100 * WindowDays

(***************************************************************************)
(* Numbers.  Quot is the quotient rounded towards zero, Sqrt n the square  *)
(* root rounded down.                                                      *)
(***************************************************************************)
Quot(a, b) == IF a >= 0 THEN a \div b ELSE -((-a) \div b)

RECURSIVE SqrtBetween(_, _, _)
SqrtBetween(n, lo, hi) ==
  IF lo >= hi THEN lo
  ELSE LET mid == (lo + hi + 1) \div 2
       IN  IF mid * mid <= n THEN SqrtBetween(n, mid, hi) ELSE SqrtBetween(n, lo, mid - 1)

Sqrt(n) == SqrtBetween(n, 0, Min(n, 46340))

\* the sum of the numbers of a sequence
RECURSIVE Sum(_)
Sum(s) == IF s = <<>> THEN 0 ELSE Head(s) + Sum(Tail(s))

(***************************************************************************)
(* A vector of numbers is [length, num, den]: length elements, element i   *)
(* being num[i] / den for i <= Len(num) and 0 after that.                  *)
(***************************************************************************)
Vector(length, num, den) == [length |-> length, num |-> num, den |-> den]

EmptyVector == Vector(0, <<>>, 1)

\* text.charCodeAt(idx)
charCode(c) ==
  CASE c = "a" -> 97
    [] c = "b" -> 98
    [] c = " " -> 32
    [] c = "\t" -> 9
    [] c = "?" -> 63
    [] c = "D" -> 68
    [] c = "F" -> 70
    [] c = "I" -> 73
    [] c = "M" -> 77
    [] c = "W" -> 87
    [] c = "c" -> 99
    [] c = "d" -> 100
    [] c = "e" -> 101
    [] c = "f" -> 102
    [] c = "h" -> 104
    [] c = "i" -> 105
    [] c = "l" -> 108
    [] c = "m" -> 109
    [] c = "n" -> 110
    [] c = "o" -> 111
    [] c = "p" -> 112
    [] c = "r" -> 114
    [] c = "s" -> 115
    [] c = "t" -> 116
    [] c = "u" -> 117
    [] c = "v" -> 118
    [] c = "y" -> 121

(***************************************************************************)
(* fallbackEmbedding(text)                                                 *)
(***************************************************************************)
\* a faulty bucketOf: the buckets are shifted by one
bucketOfShifted(idx) == (idx + 1) % VectorLength

bucketOf(idx) == idx % VectorLength

\* a faulty fallbackEmbedding: one vector for every text
fallbackEmbeddingOfNothing(text) == Vector(VectorLength, <<1>>, 1)

fallbackEmbedding(text) ==
  LET used == Min(Len(text), VectorLength)
      bucket(i) == Sum([p \in 1..Len(text) |->
                         IF bucketOf(p - 1) = i - 1 THEN charCode(text[p]) ELSE 0])
  IN  Vector(VectorLength, [i \in 1..used |-> bucket(i)], Max(Len(text), 1))

(***************************************************************************)
(* cosineSimilarity(a, b), in units of 1 / Scale.  The denominators of the *)
(* two vectors cancel in dot / sqrt(normA * normB), so the sums are taken  *)
(* over the numerators.                                                    *)
(***************************************************************************)
\* Math.sqrt(normA * normB), rounded down; where the product is beyond the
\* integers at hand, the product of the two rounded roots, which is below it
\* by less than one part in two hundred for norms that large
rootOfProduct(normA, normB) ==
  IF normA <= 46340 /\ normB <= 46340
  THEN Sqrt(normA * normB)
  ELSE Sqrt(normA) * Sqrt(normB)

\* a faulty lengthsDiffer: vectors of different lengths are compared
lengthsIgnored(a, b) == a.length = 0

lengthsDiffer(a, b) == a.length # b.length \/ a.length = 0

cosineSimilarity(a, b) ==
  IF lengthsDiffer(a, b) THEN 0
  ELSE LET n == Min(Len(a.num), Len(b.num))
           dot == Sum([i \in 1..n |-> a.num[i] * b.num[i]])
           normA == Sum([i \in 1..Len(a.num) |-> a.num[i] * a.num[i]])
           normB == Sum([i \in 1..Len(b.num) |-> b.num[i] * b.num[i]])
       IN  IF normA = 0 \/ normB = 0 THEN 0
           ELSE Quot(dot * Scale, rootOfProduct(normA, normB))

(***************************************************************************)
(* Scoring of one chunk at time clock: the body of the map callback of     *)
(* searchSemanticMemory.  finalScore is in units of 1 / (10 * Scale).      *)
(***************************************************************************)
\* a faulty recencyOf: no floor at 0
recencyOfUnfloored(createdAt, clock) ==
  Scale - Quot((clock - createdAt) * Scale, WindowDays)

\* a faulty recencyOf: the decay runs over twice the window
recencyOfDoubleWindow(createdAt, clock) ==
  Max(0, Scale - Quot((clock - createdAt) * Scale, 2 * WindowDays))

recencyOf(createdAt, clock) ==
  Max(0, Scale - Quot((clock - createdAt) * Scale, WindowDays))

\* a faulty finalOf: the two weights are swapped
finalOfSwapped(similarityScore, recencyScore) ==
  similarityScore * RecencyTenths + recencyScore * SimilarityTenths

finalOf(similarityScore, recencyScore) ==
  similarityScore * SimilarityTenths + recencyScore * RecencyTenths

scoreChunk(chunk, queryEmbedding, clock) ==
  LET similarityScore == cosineSimilarity(chunk.embedding, queryEmbedding)
      recencyScore == recencyOf(chunk.createdAt, clock)
  IN  [chunk |-> chunk,
       similarityScore |-> similarityScore,
       recencyScore |-> recencyScore,
       finalScore |-> finalOf(similarityScore, recencyScore)]

(***************************************************************************)
(* Array.prototype.sort (stable) and slice(0, count).                       *)
(***************************************************************************)
\* a faulty ordered: the comparison of the sort is reversed
orderedAscending(a, b) == a.finalScore <= b.finalScore

\* comparator (a, b) => b.finalScore - a.finalScore: a stays before b unless
\* b scores strictly higher
ordered(a, b) == a.finalScore >= b.finalScore

RECURSIVE insertSorted(_, _)
insertSorted(sorted, e) ==
  IF sorted = <<>> THEN <<e>>
  ELSE IF ordered(Head(sorted), e) THEN <<Head(sorted)>> \o insertSorted(Tail(sorted), e)
       ELSE <<e>> \o sorted

RECURSIVE sortEntries(_)
sortEntries(s) ==
  IF s = <<>> THEN <<>>
  ELSE insertSorted(sortEntries(SubSeq(s, 1, Len(s) - 1)), s[Len(s)])

\* a faulty sliceTo: one entry more than count
sliceToInclusive(s, count) == SubSeq(s, 1, Min(count + 1, Len(s)))

sliceTo(s, count) == SubSeq(s, 1, Min(count, Len(s)))

(***************************************************************************)
(* Bounds and inputs of the store model.                                   *)
(***************************************************************************)
DefaultChunkSize == 2   \* the size chunkText defaults to (450 in the code), scaled
MaxMessages == 2        \* messages handed to persistSemanticMemory
MaxSessions == 1        \* sessions created
MaxTicks == 1           \* steps of the clock
MaxCount == 2           \* largest count asked of a search

\* days in one step of the clock: half the recency window
TickDays == WindowDays \div 2

GuestIds == {"guest:d1"}
AuthenticatedIds == {"user:a"}
Users == GuestIds \cup AuthenticatedIds

Procs == {"p1", "p2"}

\* the callers that run one after the other
Sequential == {"p1"}

\* message contents: nothing but whitespace; several segments, with whitespace
\* to trim and to collapse
Contents == {<<" ">>, <<" ", "a", "b", "\t", " ", "a">>}

Queries == {<<" ", "b">>}

\* The embedding provider stands for one fixed model: its vectors have the
\* length of the table's column, and texts that begin alike get the same
\* direction, texts that do not get orthogonal ones.
liveEmbedding(input) ==
  IF input # <<>> /\ Head(input) \in Whitespace
  THEN Vector(ColumnDimension, <<0, 1>>, 1)
  ELSE Vector(ColumnDimension, <<1>>, 1)

(***************************************************************************)
(* State.                                                                  *)
(*   hasSupabase, hasOpenAiKey  the configuration, fixed for a process     *)
(*   now              the clock (Date.now(), now()), in days               *)
(*   sessions         memoryStore.sessions / table sessions                *)
(*   semanticMemory   the chunk store in use: memoryStore.semanticMemory,  *)
(*                    or table semantic_memory when Supabase is configured *)
(*   standbyMemory    memoryStore.semanticMemory while the table is the    *)
(*                    store in use                                         *)
(*   nextSessionId, nextMessageId, nextChunkId   the next fresh ids        *)
(*   persist          the calls of persistSemanticMemory in flight         *)
(*   lastOp           the operation that has just completed, its           *)
(*                    arguments and what it returned                       *)
(***************************************************************************)
VARIABLES hasSupabase, hasOpenAiKey, now, sessions, semanticMemory, standbyMemory,
          nextSessionId, nextMessageId, nextChunkId, persist, lastOp

storeVars == <<hasSupabase, hasOpenAiKey, now, sessions, semanticMemory, standbyMemory,
               nextSessionId, nextMessageId, nextChunkId, persist, lastOp>>

config == <<hasSupabase, hasOpenAiKey>>

\* the locals of one run of chunkText, kept apart from the store
VARIABLES ckPc, ckText, ckSize, ckNormalized, ckStart, ckChunks, ckIters

chunkVars == <<ckPc, ckText, ckSize, ckNormalized, ckStart, ckChunks, ckIters>>

\* the locals of the scoring of one chunk (the callback of map in
\* searchSemanticMemory), kept apart from the store
VARIABLES scPc, scChunk, scQuery, scClock, scSimilarity, scRecency, scEntry

scoreVars == <<scPc, scChunk, scQuery, scClock, scSimilarity, scRecency, scEntry>>

\* the locals of fallbackEmbedding, called twice on one text
VARIABLES emPc, emText, emIdx, emVector, emResult, emFirst

embedVars == <<emPc, emText, emIdx, emVector, emResult, emFirst>>

\* the messages and the request a route is serving:
\*   messages   memoryStore.messages / table messages, in the order of creation
\*   route      the request being served, the step it has come to and the
\*              message addMessage last returned to it
VARIABLES messages, route

routeVars == <<messages, route>>

\* the variables the operations of the semantic store leave alone
pureVars == <<chunkVars, scoreVars, embedVars, routeVars>>

vars == <<storeVars, pureVars>>

IdleCall == [pc |-> "idle"]

NoOp == [op |-> "none"]

Range(s) == {s[i] : i \in 1..Len(s)}

StoreInit ==
  /\ hasSupabase \in BOOLEAN
  /\ hasOpenAiKey \in BOOLEAN
  /\ now = 0
  /\ sessions = {}
  /\ semanticMemory = <<>>
  /\ standbyMemory = <<>>
  /\ nextSessionId = 1
  /\ nextMessageId = 1
  /\ nextChunkId = 1
  /\ persist = [p \in Procs |-> IdleCall]
  /\ lastOp = NoOp

(***************************************************************************)
(* The clock.                                                              *)
(***************************************************************************)
Tick ==
  /\ now + TickDays <= MaxTicks * TickDays
  /\ now' = now + TickDays
  /\ lastOp' = NoOp
  /\ UNCHANGED <<config, standbyMemory, sessions, semanticMemory, nextSessionId, nextMessageId,
                 nextChunkId, persist,
                 pureVars>>

(***************************************************************************)
(* createSession                                                           *)
(***************************************************************************)
createSession(userId) ==
  /\ nextSessionId <= MaxSessions
  /\ sessions' = sessions \cup {[id |-> nextSessionId, userId |-> userId]}
  /\ nextSessionId' = nextSessionId + 1
  /\ lastOp' = [op |-> "createSession", userId |-> userId, sessionId |-> nextSessionId]
  /\ UNCHANGED <<config, standbyMemory, now, semanticMemory, nextMessageId, nextChunkId, persist,
                 pureVars>>

\* the session ids a request may name: those issued so far, and 0 for an id
\* that no session has
RequestedSessionIds == 0..(nextSessionId - 1)

(***************************************************************************)
(* persistSemanticMemory: chunkText, then for each chunk in turn           *)
(* await embedText(chunk) and await addSemanticChunk(...).  A call is      *)
(*   [pc, userId, sessionId, messageId, content, chunks, embedded, added]  *)
(* where embedded are the vectors embedText has returned to it and added   *)
(* the records it has put in the store; the chunk being worked on is       *)
(* chunks[Len(added) + 1].                                                 *)
(***************************************************************************)
currentChunk(call) == call.chunks[Len(call.added) + 1]

report(call, outcome, at) ==
  [op |-> "persistSemanticMemory", outcome |-> outcome, at |-> at,
   userId |-> call.userId, sessionId |-> call.sessionId,
   messageId |-> call.messageId, content |-> call.content,
   embedded |-> call.embedded, added |-> call.added]

\* const chunks = chunkText(content): the call as it enters the loop
calling(userId, sessionId, messageId, content) ==
  [pc |-> "embedding", userId |-> userId, sessionId |-> sessionId,
   messageId |-> messageId, content |-> content,
   chunks |-> chunkText(content, DefaultChunkSize),
   embedded |-> <<>>, added |-> <<>>]

persistSemanticMemory(p, userId, sessionId, content) ==
  /\ persist[p].pc = "idle"
  /\ nextMessageId <= MaxMessages
  /\ LET call == calling(userId, sessionId, nextMessageId, content)
     IN  IF call.chunks = <<>>
         THEN /\ lastOp' = report(call, "returned", "end")
              /\ UNCHANGED persist
         ELSE /\ persist' = [persist EXCEPT ![p] = call]
              /\ lastOp' = NoOp
  /\ nextMessageId' = nextMessageId + 1
  /\ UNCHANGED <<config, standbyMemory, now, sessions, semanticMemory, nextSessionId, nextChunkId,
                 pureVars>>

(***************************************************************************)
(* embedText(input): what it may return, and whether it may throw.         *)
(***************************************************************************)
\* a faulty embedTextResults: the live call is made whatever the configuration
embedTextResultsLive(input) == {liveEmbedding(input)}

\* a faulty embedTextResults: the live call may give way to fallbackEmbedding
embedTextResultsOrFallback(input) ==
  {fallbackEmbedding(input)} \cup (IF hasOpenAiKey THEN {liveEmbedding(input)} ELSE {})

embedTextResults(input) ==
  IF ~hasOpenAiKey THEN {fallbackEmbedding(input)} ELSE {liveEmbedding(input)}

embedTextMayThrow == hasOpenAiKey

\* whether a call of embedText gets as far as client.embeddings.create
providerCalled == hasOpenAiKey

embedded(input, embedding) ==
  [op |-> "embedText", outcome |-> "returned", input |-> input,
   provider |-> providerCalled, embedding |-> embedding]

embedTextReturns(p) ==
  /\ persist[p].pc = "embedding"
  /\ \E embedding \in embedTextResults(currentChunk(persist[p])) :
       /\ persist' = [persist EXCEPT ![p].pc = "adding",
                                     ![p].embedded = Append(@, embedding)]
       /\ lastOp' = embedded(currentChunk(persist[p]), embedding)
  /\ UNCHANGED <<config, standbyMemory, now, sessions, semanticMemory, nextSessionId, nextMessageId,
                 nextChunkId,
                 pureVars>>

\* a faulty afterThrow: the chunks the call has added are taken out again
afterThrowRolledBack(chunks, call) ==
  SelectSeq(chunks, LAMBDA chunk : \A k \in 1..Len(call.added) : call.added[k].id # chunk.id)

\* what a call of persistSemanticMemory leaves in the store when an await of
\* its loop throws: there is no try, catch or finally around the loop
afterThrow(chunks, call) == chunks

embedTextThrows(p) ==
  /\ persist[p].pc = "embedding"
  /\ embedTextMayThrow
  /\ persist' = [persist EXCEPT ![p] = IdleCall]
  /\ lastOp' = report(persist[p], "threw", "embedText")
  /\ semanticMemory' = afterThrow(semanticMemory, persist[p])
  /\ UNCHANGED <<config, standbyMemory, now, sessions, nextSessionId, nextMessageId,
                 nextChunkId,
                 pureVars>>

(***************************************************************************)
(* addSemanticChunk.  The payload; what the table accepts (the foreign key *)
(* on session_id and the dimension of the column); the call itself.        *)
(***************************************************************************)
newChunk(id, userId, sessionId, textChunk, messageIds, embedding, createdAt) ==
  [id |-> id, userId |-> userId, sessionId |-> sessionId, textChunk |-> textChunk,
   messageIds |-> messageIds, embedding |-> embedding, createdAt |-> createdAt]

tableAccepts(chunk) ==
  /\ \E session \in sessions : session.id = chunk.sessionId
  /\ chunk.embedding.length = ColumnDimension

\* a faulty awaitedEmbedding: the vector is not awaited
unresolvedEmbedding(call) == EmptyVector

\* const embedding = await embedText(chunk): the vector the call was given
awaitedEmbedding(call) == call.embedded[Len(call.embedded)]

\* faulty chunkArguments: the text is always that of the first chunk
chunkArgumentsFirstChunk(call, id, createdAt) ==
  newChunk(id, call.userId, call.sessionId, call.chunks[1], <<call.messageId>>,
           awaitedEmbedding(call), createdAt)

\* the arguments persistSemanticMemory passes
chunkArguments(call, id, createdAt) ==
  newChunk(id, call.userId, call.sessionId, currentChunk(call), <<call.messageId>>,
           awaitedEmbedding(call), createdAt)

\* a faulty createId: the id handed out last is handed out again
createIdRepeated == Max(1, nextChunkId - 1)

\* id: createId(), a fresh UUID
createId == nextChunkId

\* a faulty pushed: the chunk takes the place of the last one in the store
pushedOverLast(chunks, payload) ==
  IF chunks = <<>> THEN <<payload>> ELSE [chunks EXCEPT ![Len(chunks)] = payload]

\* memoryStore.semanticMemory.push(payload) / insert of one row
pushed(chunks, payload) == Append(chunks, payload)

\* a faulty afterFailedInsert: the chunk is kept in the array instead
pushedAfterFailedInsert(chunks, payload) == Append(chunks, payload)

\* if (error || !data) throw: the array is not touched
afterFailedInsert(chunks, payload) == chunks

addSemanticChunk(p) ==
  /\ persist[p].pc = "adding"
  /\ LET payload == chunkArguments(persist[p], createId, now)
         stored == /\ semanticMemory' = pushed(semanticMemory, payload)
                   /\ nextChunkId' = nextChunkId + 1
                   /\ persist' = [persist EXCEPT
                        ![p].added = Append(@, payload),
                        ![p].pc = IF Len(persist[p].added) + 1 = Len(persist[p].chunks)
                                  THEN "returning" ELSE "embedding"]
                   /\ lastOp' = [op |-> "addSemanticChunk", outcome |-> "returned",
                                 chunk |-> payload, clock |-> now]
                   /\ UNCHANGED standbyMemory
         threw ==  /\ persist' = [persist EXCEPT ![p] = IdleCall]
                   /\ lastOp' = report(persist[p], "threw", "addSemanticChunk")
                   /\ standbyMemory' = afterFailedInsert(standbyMemory, payload)
                   /\ semanticMemory' = afterThrow(semanticMemory, persist[p])
                   /\ UNCHANGED nextChunkId
     IN  \/ ~hasSupabase /\ stored
         \/ hasSupabase /\ tableAccepts(payload) /\ stored
         \/ hasSupabase /\ threw
  /\ UNCHANGED <<config, now, sessions, nextSessionId, nextMessageId,
                 pureVars>>

persistReturns(p) ==
  /\ persist[p].pc = "returning"
  /\ persist' = [persist EXCEPT ![p] = IdleCall]
  /\ lastOp' = report(persist[p], "returned", "end")
  /\ UNCHANGED <<config, standbyMemory, now, sessions, semanticMemory, nextSessionId, nextMessageId,
                 nextChunkId,
                 pureVars>>

\* the caller or the runtime gives the call up while it awaits embedText
persistAbandoned(p) ==
  /\ persist[p].pc = "embedding"
  /\ persist' = [persist EXCEPT ![p] = IdleCall]
  /\ lastOp' = report(persist[p], "abandoned", "embedText")
  /\ UNCHANGED <<config, standbyMemory, now, sessions, semanticMemory, nextSessionId, nextMessageId,
                 nextChunkId,
                 pureVars>>

(***************************************************************************)
(* searchSemanticMemory, in-memory branch:                                 *)
(*   filter(userId) . map(score) . sort(descending) . slice(0, count)      *)
(***************************************************************************)
\* a faulty ownedBy: no filter on the user
ownedByAnyone(chunk, userId) == TRUE

ownedBy(chunk, userId) == chunk.userId = userId

chunksOf(userId) == SelectSeq(semanticMemory, LAMBDA chunk : ownedBy(chunk, userId))

scoredChunks(userId, queryEmbedding, clock) ==
  LET chunks == chunksOf(userId)
  IN  [i \in 1..Len(chunks) |-> scoreChunk(chunks[i], queryEmbedding, clock)]

searchInMemory(userId, queryEmbedding, count, clock) ==
  sliceTo(sortEntries(scoredChunks(userId, queryEmbedding, clock)), count)

(***************************************************************************)
(* searchSemanticMemory, durable branch: the function match_semantic_memory*)
(* and the mapping of its rows.  The rows come in descending final_score;  *)
(* SQL leaves the order of rows of equal final_score open.                 *)
(***************************************************************************)
matchThreshold == (Scale * ThresholdTenths) \div 10

\* where sm.user_id = p_user_id and similarity >= match_threshold
ranked(userId, queryEmbedding, clock) ==
  LET scored == scoredChunks(userId, queryEmbedding, clock)
  IN  {scored[i] : i \in {j \in 1..Len(scored) : scored[j].similarityScore >= matchThreshold}}

RECURSIVE descendingOrders(_)
descendingOrders(rows) ==
  IF rows = {} THEN {<<>>}
  ELSE LET highest == {r \in rows : \A q \in rows : r.finalScore >= q.finalScore}
       IN  UNION {{<<r>> \o rest : rest \in descendingOrders(rows \ {r})} : r \in highest}

\* the entry built from a row: the userId is the argument, the embedding is []
rowToEntry(row, userId) ==
  [chunk |-> newChunk(row.chunk.id, userId, row.chunk.sessionId, row.chunk.textChunk,
                      row.chunk.messageIds, EmptyVector, row.chunk.createdAt),
   similarityScore |-> row.similarityScore,
   recencyScore |-> row.recencyScore,
   finalScore |-> row.finalScore]

\* the argument query_embedding vector(3072)
rpcAccepts(queryEmbedding) == queryEmbedding.length = ColumnDimension

searchDurable(userId, queryEmbedding, count, clock) ==
  { LET rows == sliceTo(order, count)
    IN  [i \in 1..Len(rows) |-> rowToEntry(rows[i], userId)] :
    order \in descendingOrders(ranked(userId, queryEmbedding, clock)) }

searched(userId, queryEmbedding, count, outcome, result) ==
  [op |-> "searchSemanticMemory", outcome |-> outcome, userId |-> userId,
   queryEmbedding |-> queryEmbedding, count |-> count, clock |-> now,
   result |-> result]

\* a faulty afterSearch: the array of the store is the one that gets sorted
afterSearchSortedInPlace(chunks, queryEmbedding, clock) ==
  LET entries == sortEntries([i \in 1..Len(chunks) |->
                                scoreChunk(chunks[i], queryEmbedding, clock)])
  IN  [i \in 1..Len(entries) |-> entries[i].chunk]

\* what the search leaves in memoryStore.semanticMemory: filter and map build
\* new arrays, sort and slice work on those
afterSearch(chunks, queryEmbedding, clock) == chunks

searchSemanticMemory(userId, queryEmbedding, count) ==
  \/ /\ ~hasSupabase
     /\ lastOp' = searched(userId, queryEmbedding, count, "returned",
                           searchInMemory(userId, queryEmbedding, count, now))
     /\ semanticMemory' = afterSearch(semanticMemory, queryEmbedding, now)
  \/ /\ hasSupabase
     /\ rpcAccepts(queryEmbedding)
     /\ \E result \in searchDurable(userId, queryEmbedding, count, now) :
          lastOp' = searched(userId, queryEmbedding, count, "returned", result)
     /\ UNCHANGED semanticMemory
  \/ /\ hasSupabase
     /\ lastOp' = searched(userId, queryEmbedding, count, "threw", <<>>)
     /\ UNCHANGED semanticMemory

(***************************************************************************)
(* retrieveContext: embedText(query), then searchSemanticMemory.           *)
(***************************************************************************)
retrieval(userId, query, limit) ==
  \/ \E embedding \in embedTextResults(query) :
       searchSemanticMemory(userId, embedding, limit)
  \/ /\ embedTextMayThrow
     /\ lastOp' = [op |-> "retrieveContext", outcome |-> "threw", userId |-> userId,
                   query |-> query]
     /\ UNCHANGED semanticMemory

retrieveContext(userId, query, limit) ==
  /\ retrieval(userId, query, limit)
  /\ UNCHANGED <<config, standbyMemory, now, sessions, nextSessionId, nextMessageId,
                 nextChunkId, persist,
                 pureVars>>

(***************************************************************************)
(* deleteSession.  src/lib/server/repository.ts filters the chunks of the  *)
(* session out of the in-memory store; the repository of part_011 filters  *)
(* sessions and messages only.  In the table the chunks of a deleted       *)
(* session row go with it (on delete cascade).                             *)
(***************************************************************************)
sessionRow(userId, sessionId) == [id |-> sessionId, userId |-> userId]

\* a faulty withoutSession: every chunk of the user is filtered out
withoutUser(chunks, userId, sessionId) ==
  SelectSeq(chunks, LAMBDA chunk : ~(chunk.userId = userId))

withoutSession(chunks, userId, sessionId) ==
  SelectSeq(chunks, LAMBDA chunk : ~(chunk.userId = userId /\ chunk.sessionId = sessionId))

cascade(chunks, rows) ==
  SelectSeq(chunks, LAMBDA chunk : ~(\E session \in rows : session.id = chunk.sessionId))

deleted(userId, sessionId, outcome) ==
  [op |-> "deleteSession", outcome |-> outcome, userId |-> userId, sessionId |-> sessionId]

deleteDurable(userId, sessionId) ==
  \/ /\ sessions' = sessions \ {sessionRow(userId, sessionId)}
     /\ semanticMemory' = cascade(semanticMemory, sessions \cap {sessionRow(userId, sessionId)})
     /\ lastOp' = deleted(userId, sessionId, "returned")
  \/ /\ lastOp' = deleted(userId, sessionId, "threw")
     /\ UNCHANGED <<sessions, semanticMemory>>

deleteSession(userId, sessionId) ==
  /\ \/ /\ ~hasSupabase
        /\ sessions' = sessions \ {sessionRow(userId, sessionId)}
        /\ semanticMemory' = withoutSession(semanticMemory, userId, sessionId)
        /\ lastOp' = deleted(userId, sessionId, "returned")
     \/ /\ hasSupabase
        /\ deleteDurable(userId, sessionId)
  /\ UNCHANGED <<config, standbyMemory, now, nextSessionId, nextMessageId, nextChunkId, persist,
                 pureVars>>

deleteSession_part_011(userId, sessionId) ==
  /\ \/ /\ ~hasSupabase
        /\ sessions' = sessions \ {sessionRow(userId, sessionId)}
        /\ lastOp' = deleted(userId, sessionId, "returned")
        /\ UNCHANGED semanticMemory
     \/ /\ hasSupabase
        /\ deleteDurable(userId, sessionId)
  /\ UNCHANGED <<config, standbyMemory, now, nextSessionId, nextMessageId, nextChunkId, persist,
                 pureVars>>

(***************************************************************************)
(* migrateGuestDataToUser: every record of the guest gets the userId of    *)
(* the authenticated user; in the tables one update per table, in the      *)
(* order sessions, messages, semantic_memory, ..., stopping at the first   *)
(* that fails.                                                             *)
(***************************************************************************)
swap(item, guestUserId, authenticatedUserId) ==
  IF item.userId = guestUserId THEN [item EXCEPT !.userId = authenticatedUserId] ELSE item

\* a faulty swapAll: only the first item is looked at
swapFirst(items, guestUserId, authenticatedUserId) ==
  [i \in 1..Len(items) |->
     IF i = 1 THEN swap(items[i], guestUserId, authenticatedUserId) ELSE items[i]]

swapAll(items, guestUserId, authenticatedUserId) ==
  [i \in 1..Len(items) |-> swap(items[i], guestUserId, authenticatedUserId)]

migrated(guestUserId, authenticatedUserId, outcome) ==
  [op |-> "migrateGuestDataToUser", outcome |-> outcome, guestUserId |-> guestUserId,
   authenticatedUserId |-> authenticatedUserId]

migrateGuestDataToUser(guestUserId, authenticatedUserId) ==
  /\ ~(guestUserId = "" \/ guestUserId = authenticatedUserId)
  /\ LET newSessions == {swap(session, guestUserId, authenticatedUserId) : session \in sessions}
         newMemory == swapAll(semanticMemory, guestUserId, authenticatedUserId)
     IN  \/ /\ sessions' = newSessions
            /\ semanticMemory' = newMemory
            /\ lastOp' = migrated(guestUserId, authenticatedUserId, "returned")
         \/ /\ hasSupabase
            /\ \/ UNCHANGED <<sessions, semanticMemory>>
               \/ sessions' = newSessions /\ UNCHANGED semanticMemory
               \/ sessions' = newSessions /\ semanticMemory' = newMemory
            /\ lastOp' = migrated(guestUserId, authenticatedUserId, "threw")
  /\ UNCHANGED <<config, standbyMemory, now, nextSessionId, nextMessageId, nextChunkId, persist,
                 pureVars>>

(***************************************************************************)
(* The routes that write and read semantic memory, one request at a time,  *)
(* each await of a route being one step:                                   *)
(*   POST sessions/[id]/messages   addMessage; persistSemanticMemory       *)
(*                                 unless the role is system               *)
(*   POST sync/upload              createSession; the same two steps for   *)
(*                                 every message of the upload             *)
(*   POST chat/stream              addMessage and persistSemanticMemory of *)
(*                                 the user's message; retrieveContext;    *)
(*                                 the same two for the reply              *)
(*   POST messages/[id]/regenerate updateMessage; deleteMessagesAfter;     *)
(*                                 retrieveContext; addMessage and         *)
(*                                 persistSemanticMemory of the reply      *)
(* A request is [pc, kind, userId, sessionId, message, rest]: message is   *)
(* what addMessage or updateMessage last returned to it, rest the messages *)
(* of an upload still to come.                                             *)
(***************************************************************************)
MaxRouteMessages == 3   \* messages the routes create

TurnLimit == 6

Roles == {"user", "assistant", "system"}

\* what the model answers, and what an edit puts in the place of a message
Replies == {<<"b">>}

Edits == {<<"b", "a">>}

\* the identity the requests resolve to
RouteUsers == {"guest:d1"}

RouteContents == {<<" ">>, <<" ", "a", "b", "\t", " ", "a">>}

Uploads ==
  LET incoming == {[role |-> "system", content |-> <<"a", "b">>],
                   [role |-> "user", content |-> <<"a", " ", "b">>]}
  IN  {<<>>} \cup {<<m>> : m \in incoming}
             \cup {<<m, n>> : m \in incoming, n \in incoming}

newMessage(id, userId, sessionId, role, content, createdAt) ==
  [id |-> id, userId |-> userId, sessionId |-> sessionId, role |-> role,
   content |-> content, createdAt |-> createdAt]

\* the message of a request that has none yet
NoMessage == newMessage(0, "", 0, "none", <<>>, 0)

serving(kind, userId, sessionId) ==
  [pc |-> "serving", kind |-> kind, userId |-> userId, sessionId |-> sessionId,
   message |-> NoMessage, rest |-> <<>>]

\* no request is being served
Served == [serving("none", "", 0) EXCEPT !.pc = "idle"]

\* catch (error): the response is an error, the request is over
routeFailed(request, at) ==
  [op |-> "route", kind |-> request.kind, outcome |-> "failed", at |-> at]

routeResponded(request, status) ==
  [op |-> "route", kind |-> request.kind, outcome |-> status, at |-> "end"]

\* session_id uuid not null references sessions (id)
messagesAccepts(message) == \E session \in sessions : session.id = message.sessionId

\* addMessage as a request calls it: the message is stored and returned to the
\* request; or, with the table, the insert fails, or touchSession fails after
\* the insert, and the route catches the error
addMessage(request, role, content) ==
  /\ nextMessageId <= MaxRouteMessages
  /\ LET payload == newMessage(nextMessageId, request.userId, request.sessionId,
                               role, content, now)
     IN  \/ /\ ~hasSupabase \/ messagesAccepts(payload)
            /\ messages' = Append(messages, payload)
            /\ route' = [request EXCEPT !.pc = "added", !.message = payload]
            /\ lastOp' = [op |-> "addMessage", outcome |-> "returned", message |-> payload]
         \/ /\ hasSupabase
            /\ UNCHANGED messages
            /\ route' = Served
            /\ lastOp' = routeFailed(request, "addMessage")
         \/ /\ hasSupabase /\ messagesAccepts(payload)
            /\ messages' = Append(messages, payload)
            /\ route' = Served
            /\ lastOp' = routeFailed(request, "touchSession")
  /\ nextMessageId' = nextMessageId + 1
  /\ UNCHANGED <<config, now, sessions, semanticMemory, standbyMemory, nextSessionId,
                 nextChunkId, persist, chunkVars, scoreVars, embedVars>>

\* POST sessions/[id]/messages
postMessage(userId, sessionId, role, content) ==
  /\ route.pc = "idle"
  /\ addMessage(serving("messages", userId, sessionId), role, content)

\* POST chat/stream: the message of the user
postChat(userId, sessionId, message) ==
  /\ route.pc = "idle"
  /\ addMessage(serving("chat", userId, sessionId), "user", message)

\* POST sync/upload: createSession for the one session of the upload
postUpload(userId, incoming) ==
  /\ route.pc = "idle"
  /\ nextSessionId <= MaxSessions
  /\ \/ /\ sessions' = sessions \cup {[id |-> nextSessionId, userId |-> userId]}
        /\ route' = [serving("upload", userId, nextSessionId) EXCEPT
                       !.pc = "loop", !.rest = incoming]
        /\ lastOp' = [op |-> "createSession", userId |-> userId, sessionId |-> nextSessionId]
     \/ /\ hasSupabase
        /\ UNCHANGED sessions
        /\ route' = Served
        /\ lastOp' = routeFailed(serving("upload", userId, nextSessionId), "createSession")
  /\ nextSessionId' = nextSessionId + 1
  /\ UNCHANGED <<config, now, semanticMemory, standbyMemory, nextMessageId, nextChunkId,
                 persist, messages, chunkVars, scoreVars, embedVars>>

\* for (const incomingMessage of incomingSession.messages): addMessage
uploadMessage ==
  /\ route.pc = "loop"
  /\ route.rest # <<>>
  /\ addMessage([route EXCEPT !.rest = Tail(route.rest)],
                Head(route.rest).role, Head(route.rest).content)

\* the loop is over: the response
uploadResponds ==
  /\ route.pc = "loop"
  /\ route.rest = <<>>
  /\ route' = Served
  /\ lastOp' = routeResponded(route, "responded")
  /\ UNCHANGED <<config, now, sessions, semanticMemory, standbyMemory, nextSessionId,
                 nextMessageId, nextChunkId, persist, messages,
                 chunkVars, scoreVars, embedVars>>

\* a faulty shouldPersist: the role of the message is not looked at
shouldPersistAnyRole(message) == TRUE

\* if (message.role !== "system")
shouldPersist(message) == message.role # "system"

\* await persistSemanticMemory({ userId, sessionId, messageId: message.id,
\* content: message.content }): the call is made for the message addMessage
\* returned
routePersists ==
  /\ route.pc = "added"
  /\ shouldPersist(route.message)
  /\ LET call == calling(route.userId, route.sessionId, route.message.id,
                         route.message.content)
     IN  IF call.chunks = <<>>
         THEN /\ lastOp' = report(call, "returned", "end")
              /\ route' = [route EXCEPT !.pc = "persisted"]
              /\ UNCHANGED persist
         ELSE /\ persist' = [persist EXCEPT !["p1"] = call]
              /\ route' = [route EXCEPT !.pc = "persisting"]
              /\ lastOp' = NoOp
  /\ UNCHANGED <<config, now, sessions, semanticMemory, standbyMemory, nextSessionId,
                 nextMessageId, nextChunkId, messages, chunkVars, scoreVars, embedVars>>

\* the role is system: persistSemanticMemory is not called
routeSkips ==
  /\ route.pc = "added"
  /\ ~shouldPersist(route.message)
  /\ route' = [route EXCEPT !.pc = "persisted"]
  /\ lastOp' = NoOp
  /\ UNCHANGED <<config, now, sessions, semanticMemory, standbyMemory, nextSessionId,
                 nextMessageId, nextChunkId, persist, messages,
                 chunkVars, scoreVars, embedVars>>

\* the awaited call has ended: the route goes on, or catches what it threw
routeResumes ==
  /\ route.pc = "persisting"
  /\ persist["p1"].pc = "idle"
  /\ route' = IF lastOp.outcome = "returned" THEN [route EXCEPT !.pc = "persisted"]
              ELSE Served
  /\ UNCHANGED <<storeVars, messages, chunkVars, scoreVars, embedVars>>

\* after the last await of persistSemanticMemory: the response, or the next
\* message of the upload
routeResponds ==
  /\ route.pc = "persisted"
  /\ \/ route.kind = "messages"
     \/ route.kind \in {"chat", "regenerate"} /\ route.message.role = "assistant"
  /\ route' = Served
  /\ lastOp' = routeResponded(route, "responded")
  /\ UNCHANGED <<config, now, sessions, semanticMemory, standbyMemory, nextSessionId,
                 nextMessageId, nextChunkId, persist, messages,
                 chunkVars, scoreVars, embedVars>>

uploadLoops ==
  /\ route.pc = "persisted"
  /\ route.kind = "upload"
  /\ route' = [route EXCEPT !.pc = "loop"]
  /\ lastOp' = NoOp
  /\ UNCHANGED <<config, now, sessions, semanticMemory, standbyMemory, nextSessionId,
                 nextMessageId, nextChunkId, persist, messages,
                 chunkVars, scoreVars, embedVars>>

\* a faulty readyToRetrieve: the retrieval does not wait for persistSemanticMemory
readyToRetrieveEarly(request) ==
  request.pc \in {"added", "persisted"} /\ request.message.role = "user"

\* chat/stream: retrieveContext comes after await persistSemanticMemory of the
\* message of the user
readyToRetrieve(request) == request.pc = "persisted" /\ request.message.role = "user"

\* const retrievedContext = await retrieveContext({ userId, query: body.message, limit: 6 })
chatRetrieves ==
  /\ route.kind = "chat"
  /\ readyToRetrieve(route)
  /\ retrieval(route.userId, route.message.content, TurnLimit)
  /\ route' = IF lastOp'.outcome = "returned" THEN [route EXCEPT !.pc = "retrieved"]
              ELSE Served
  /\ UNCHANGED <<config, now, sessions, standbyMemory, nextSessionId,
                 nextMessageId, nextChunkId, persist, messages,
                 chunkVars, scoreVars, embedVars>>

\* the reply: addMessage with role assistant; with a key the stream of the
\* model may fail first, and the request ends without a reply
routeReplies(reply) ==
  /\ route.pc = "retrieved"
  /\ addMessage(route, "assistant", reply)

modelFails ==
  /\ route.pc = "retrieved"
  /\ hasOpenAiKey
  /\ route' = Served
  /\ lastOp' = routeFailed(route, "model")
  /\ UNCHANGED <<config, now, sessions, semanticMemory, standbyMemory, nextSessionId,
                 nextMessageId, nextChunkId, persist, messages,
                 chunkVars, scoreVars, embedVars>>

\* getMessages({ userId, sessionId }): the messages of the session, oldest first
getMessages(userId, sessionId) ==
  SelectSeq(messages, LAMBDA m : m.userId = userId /\ m.sessionId = sessionId)

\* the ids deleteMessagesAfter deletes: those of the messages after messageId
idsAfter(userId, sessionId, messageId) ==
  LET list == getMessages(userId, sessionId)
      index == CHOOSE i \in 1..Len(list) : list[i].id = messageId
  IN  {list[i].id : i \in (index + 1)..Len(list)}

\* a faulty afterDeleteMessages: the chunks of the deleted messages go as well
afterDeleteMessagesCascading(chunks, userId, ids) ==
  SelectSeq(chunks, LAMBDA chunk : ~(\E k \in 1..Len(chunk.messageIds) : chunk.messageIds[k] \in ids))

\* what deleteMessagesAfter leaves in the chunk store: it filters messages,
\* savedMessages, reactions, translations and citations, or deletes rows of
\* the table messages
afterDeleteMessages(chunks, userId, ids) == chunks

\* a faulty afterUpdateMessage: the chunks of the message are rewritten
afterUpdateMessageRewriting(chunks, messageId, content) ==
  [i \in 1..Len(chunks) |->
     IF chunks[i].messageIds = <<messageId>>
     THEN [chunks[i] EXCEPT !.textChunk = normalize(content)]
     ELSE chunks[i]]

\* what updateMessage leaves in the chunk store: it writes the message only
afterUpdateMessage(chunks, messageId, content) == chunks

\* POST messages/[id]/regenerate: getMessageById; 404 unless it is a message
\* of the user with role user; updateMessage if the body has other content
postRegenerate(userId, messageId, editedContent) ==
  /\ route.pc = "idle"
  /\ LET found == {i \in 1..Len(messages) :
                     messages[i].userId = userId /\ messages[i].id = messageId}
         request == serving("regenerate", userId, 0)
     IN  \/ /\ found = {} \/ \E i \in found : messages[i].role # "user"
            /\ route' = Served
            /\ lastOp' = routeResponded(request, "notFound")
            /\ UNCHANGED <<messages, semanticMemory>>
         \/ /\ hasSupabase
            /\ route' = Served
            /\ lastOp' = routeFailed(request, "updateMessage")
            /\ UNCHANGED <<messages, semanticMemory>>
         \/ \E i \in found :
              /\ messages[i].role = "user"
              /\ IF editedContent # <<>> /\ editedContent # messages[i].content
                 THEN /\ messages' = [messages EXCEPT ![i].content = editedContent]
                      /\ semanticMemory' =
                           afterUpdateMessage(semanticMemory, messageId, editedContent)
                      /\ lastOp' = [op |-> "updateMessage", outcome |-> "returned",
                                    was |-> messages[i], message |-> messages'[i]]
                 ELSE /\ lastOp' = [op |-> "getMessageById", outcome |-> "returned",
                                    message |-> messages[i]]
                      /\ UNCHANGED <<messages, semanticMemory>>
              /\ route' = [serving("regenerate", userId, messages[i].sessionId) EXCEPT
                             !.pc = "edited", !.message = messages'[i]]
  /\ UNCHANGED <<config, now, sessions, standbyMemory, nextSessionId,
                 nextMessageId, nextChunkId, persist, chunkVars, scoreVars, embedVars>>

\* await deleteMessagesAfter({ userId, sessionId, messageId })
deleteMessagesAfter ==
  /\ route.pc = "edited"
  /\ LET ids == idsAfter(route.userId, route.sessionId, route.message.id)
     IN  \/ /\ messages' = SelectSeq(messages,
                             LAMBDA m : ~(m.userId = route.userId /\ m.id \in ids))
            /\ semanticMemory' = afterDeleteMessages(semanticMemory, route.userId, ids)
            /\ route' = [route EXCEPT !.pc = "pruned"]
            /\ lastOp' = [op |-> "deleteMessagesAfter", outcome |-> "returned",
                          userId |-> route.userId, ids |-> ids]
         \/ /\ hasSupabase
            /\ route' = Served
            /\ lastOp' = routeFailed(route, "deleteMessagesAfter")
            /\ UNCHANGED <<messages, semanticMemory>>
  /\ UNCHANGED <<config, now, sessions, standbyMemory, nextSessionId,
                 nextMessageId, nextChunkId, persist, chunkVars, scoreVars, embedVars>>

\* getSessionById, 404 without the session; then retrieveContext with the
\* content of the message as the query
regenerateRetrieves ==
  /\ route.pc = "pruned"
  /\ IF \E session \in sessions :
          session.id = route.sessionId /\ session.userId = route.userId
     THEN /\ retrieval(route.userId, route.message.content, TurnLimit)
          /\ route' = IF lastOp'.outcome = "returned"
                      THEN [route EXCEPT !.pc = "retrieved"] ELSE Served
     ELSE /\ route' = Served
          /\ lastOp' = routeResponded(route, "notFound")
          /\ UNCHANGED semanticMemory
  /\ UNCHANGED <<config, now, sessions, standbyMemory, nextSessionId,
                 nextMessageId, nextChunkId, persist, messages,
                 chunkVars, scoreVars, embedVars>>

(***************************************************************************)
(* chunkText run statement by statement on one input.                      *)
(***************************************************************************)
ChunkIdle ==
  /\ ckPc = "idle"
  /\ ckText = <<>>
  /\ ckSize = 1
  /\ ckNormalized = <<>>
  /\ ckStart = 0
  /\ ckChunks = <<>>
  /\ ckIters = 0

MaxIters == 5           \* iterations of the loop of chunkText that are followed

ChunkInit ==
  /\ ckPc = "entry"
  /\ ckText \in StringsUpTo(MaxLen)
  /\ ckSize \in 1..MaxSize
  /\ ckNormalized = <<>>
  /\ ckStart = 0
  /\ ckChunks = <<>>
  /\ ckIters = 0

\* chunkText entered with any size from 0
ChunkInitAnySize ==
  /\ ckPc = "entry"
  /\ ckText \in StringsUpTo(MaxLen)
  /\ ckSize \in 0..MaxSize
  /\ ckNormalized = <<>>
  /\ ckStart = 0
  /\ ckChunks = <<>>
  /\ ckIters = 0

\* const normalized = ...; if (!normalized) return [];
chunkNormalize ==
  /\ ckPc = "entry"
  /\ ckNormalized' = normalize(ckText)
  /\ ckPc' = IF ckNormalized' = <<>> THEN "returned" ELSE "loop"
  /\ UNCHANGED <<ckText, ckSize, ckStart, ckChunks, ckIters, storeVars, scoreVars, embedVars, routeVars>>

\* one iteration of while (start < normalized.length); the iterations of a
\* run are followed up to MaxIters of them
chunkIterate ==
  /\ ckPc = "loop"
  /\ ckStart < Len(ckNormalized)
  /\ ckIters < MaxIters
  /\ LET end == chunkEnd(ckStart, ckSize, Len(ckNormalized))
     IN  /\ ckChunks' = Append(ckChunks, slice(ckNormalized, ckStart, end))
         /\ ckStart' = nextStart(end)
  /\ ckIters' = ckIters + 1
  /\ UNCHANGED <<ckPc, ckText, ckSize, ckNormalized, storeVars, scoreVars, embedVars, routeVars>>

\* the loop condition fails: return chunks
chunkReturn ==
  /\ ckPc = "loop"
  /\ ~(ckStart < Len(ckNormalized))
  /\ ckPc' = "returned"
  /\ UNCHANGED <<ckText, ckSize, ckNormalized, ckStart, ckChunks, ckIters, storeVars, scoreVars, embedVars, routeVars>>

ChunkNext == chunkNormalize \/ chunkIterate \/ chunkReturn

(***************************************************************************)
(* The scoring of one chunk on its own: the callback of map in             *)
(* searchSemanticMemory, on every embedding, query embedding, creation     *)
(* time and time of the search within the bounds.  The clock does not run  *)
(* backwards: the search is not earlier than the creation of the chunk.    *)
(***************************************************************************)
MaxAgeDays == 61        \* greatest age of a chunk at the search, in days
MaxCreatedAt == 1       \* latest creation time, in days

ScoreVectors ==
  {EmptyVector,
   Vector(VectorLength, <<>>, 1),
   Vector(VectorLength, <<1>>, 1),
   Vector(VectorLength, <<0, 1>>, 1),
   Vector(VectorLength, <<3, 4>>, 2),
   Vector(VectorLength, <<-1>>, 1),
   Vector(ColumnDimension, <<>>, 1),
   Vector(ColumnDimension, <<1>>, 1),
   Vector(ColumnDimension, <<3, 4>>, 1)}

scoredChunk(embedding, createdAt) ==
  newChunk(1, "guest:d1", 1, <<"a">>, <<1>>, embedding, createdAt)

ScoreIdle ==
  /\ scPc = "idle"
  /\ scChunk = scoredChunk(EmptyVector, 0)
  /\ scQuery = EmptyVector
  /\ scClock = 0
  /\ scSimilarity = 0
  /\ scRecency = 0
  /\ scEntry = <<>>

ScoreInit ==
  /\ scPc = "entry"
  /\ \E embedding \in ScoreVectors, createdAt \in 0..MaxCreatedAt :
       scChunk = scoredChunk(embedding, createdAt)
  /\ scQuery \in ScoreVectors
  /\ scClock \in scChunk.createdAt..(scChunk.createdAt + MaxAgeDays)
  /\ scSimilarity = 0
  /\ scRecency = 0
  /\ scEntry = <<>>

\* const similarityScore = cosineSimilarity(chunk.embedding, queryEmbedding);
scoreSimilarity ==
  /\ scPc = "entry"
  /\ scSimilarity' = cosineSimilarity(scChunk.embedding, scQuery)
  /\ scPc' = "recency"
  /\ UNCHANGED <<scChunk, scQuery, scClock, scRecency, scEntry,
                 storeVars, chunkVars, embedVars, routeVars>>

\* const ageMs = ...; const recencyScore = Math.max(0, 1 - ageMs / ...);
scoreRecency ==
  /\ scPc = "recency"
  /\ scRecency' = recencyOf(scChunk.createdAt, scClock)
  /\ scPc' = "final"
  /\ UNCHANGED <<scChunk, scQuery, scClock, scSimilarity, scEntry,
                 storeVars, chunkVars, embedVars, routeVars>>

\* const finalScore = ...; return { chunk, similarityScore, recencyScore, finalScore };
scoreReturn ==
  /\ scPc = "final"
  /\ scEntry' = <<[chunk |-> scChunk,
                   similarityScore |-> scSimilarity,
                   recencyScore |-> scRecency,
                   finalScore |-> finalOf(scSimilarity, scRecency)]>>
  /\ scPc' = "scored"
  /\ UNCHANGED <<scChunk, scQuery, scClock, scSimilarity, scRecency,
                 storeVars, chunkVars, embedVars, routeVars>>

ScoreNext == scoreSimilarity \/ scoreRecency \/ scoreReturn

(***************************************************************************)
(* fallbackEmbedding on its own, called twice on one text: on every string *)
(* within the bound and on strings longer than the vector.                 *)
(***************************************************************************)
RECURSIVE repeated(_, _)
repeated(s, n) == IF n = 0 THEN <<>> ELSE s \o repeated(s, n - 1)

LongTexts == {repeated(<<"a", "b", " ">>, 11), repeated(<<"b", "\t">>, 35)}

EmbedTexts == StringsUpTo(MaxLen) \cup LongTexts

EmbedIdle ==
  /\ emPc = "idle"
  /\ emText = <<>>
  /\ emIdx = 0
  /\ emVector = <<>>
  /\ emResult = EmptyVector
  /\ emFirst = EmptyVector

EmbedInit ==
  /\ emPc = "entry"
  /\ emText \in EmbedTexts
  /\ emIdx = 0
  /\ emVector = <<>>
  /\ emResult = EmptyVector
  /\ emFirst = EmptyVector

\* const vector = new Array<number>(32).fill(0);
embedAllocate ==
  /\ emPc = "entry"
  /\ emVector' = [i \in 1..VectorLength |-> 0]
  /\ emIdx' = 0
  /\ emPc' = "loop"
  /\ UNCHANGED <<emText, emResult, emFirst, storeVars, chunkVars, scoreVars, routeVars>>

\* vector[idx % vector.length] += text.charCodeAt(idx);
embedAccumulate ==
  /\ emPc = "loop"
  /\ emIdx < Len(emText)
  /\ emVector' = [emVector EXCEPT ![bucketOf(emIdx) + 1] = @ + charCode(emText[emIdx + 1])]
  /\ emIdx' = emIdx + 1
  /\ UNCHANGED <<emPc, emText, emResult, emFirst, storeVars, chunkVars, scoreVars, routeVars>>

\* return vector.map((value) => value / Math.max(text.length, 1));
embedReturn ==
  /\ emPc = "loop"
  /\ ~(emIdx < Len(emText))
  /\ emResult' = Vector(VectorLength,
                        SubSeq(emVector, 1, Min(Len(emText), VectorLength)),
                        Max(Len(emText), 1))
  /\ emPc' = "returned"
  /\ UNCHANGED <<emText, emIdx, emVector, emFirst, storeVars, chunkVars, scoreVars, routeVars>>

\* the second call with the same text
embedAgain ==
  /\ emPc = "returned"
  /\ emFirst = EmptyVector
  /\ emFirst' = emResult
  /\ emPc' = "entry"
  /\ UNCHANGED <<emText, emIdx, emVector, emResult, storeVars, chunkVars, scoreVars, routeVars>>

EmbedNext == embedAllocate \/ embedAccumulate \/ embedReturn \/ embedAgain

\* no message yet, no request being served
RouteIdle ==
  /\ messages = <<>>
  /\ route = Served

\* the store while a function is run on its own
StoreIdle == StoreInit /\ RouteIdle /\ ~hasSupabase /\ ~hasOpenAiKey

\* chunkText on every string and size within the bounds
InitChunk == ChunkInit /\ StoreIdle /\ ScoreIdle /\ EmbedIdle

SpecChunk == InitChunk /\ [][ChunkNext]_vars

\* chunkText on every string and every size from 0; a call that has a step
\* to take takes it in the end
InitChunkAnySize == ChunkInitAnySize /\ StoreIdle /\ ScoreIdle /\ EmbedIdle

SpecChunkFair == InitChunkAnySize /\ [][ChunkNext]_vars /\ WF_vars(ChunkNext)

\* the scoring of every chunk within the bounds
InitScore == ScoreInit /\ StoreIdle /\ ChunkIdle /\ EmbedIdle

SpecScore == InitScore /\ [][ScoreNext]_vars

\* fallbackEmbedding on every text within the bounds
InitEmbed == EmbedInit /\ StoreIdle /\ ChunkIdle /\ ScoreIdle

SpecEmbed == InitEmbed /\ [][EmbedNext]_vars

(***************************************************************************)
(* The store and its operations.                                           *)
(***************************************************************************)
Init == StoreInit /\ RouteIdle /\ ChunkIdle /\ ScoreIdle /\ EmbedIdle

Next ==
  \/ Tick
  \/ \E userId \in Users : createSession(userId)
  \/ \E p \in Sequential, userId \in Users, sessionId \in RequestedSessionIds, content \in Contents :
       persistSemanticMemory(p, userId, sessionId, content)
  \/ \E p \in Sequential : embedTextReturns(p)
  \/ \E p \in Sequential : embedTextThrows(p)
  \/ \E p \in Sequential : addSemanticChunk(p)
  \/ \E p \in Sequential : persistReturns(p)
  \/ \E p \in Sequential : persistAbandoned(p)
  \/ \E userId \in Users, query \in Queries, limit \in 1..MaxCount :
       retrieveContext(userId, query, limit)
  \/ \E userId \in Users, sessionId \in RequestedSessionIds : deleteSession(userId, sessionId)
  \/ \E userId \in Users, sessionId \in RequestedSessionIds :
       deleteSession_part_011(userId, sessionId)
  \/ \E guestUserId \in GuestIds, authenticatedUserId \in AuthenticatedIds :
       migrateGuestDataToUser(guestUserId, authenticatedUserId)

Spec == Init /\ [][Next]_vars

\* persistSemanticMemory called by several requests at once: each await lets
\* the steps of the other calls in
NextConcurrent ==
  \/ \E userId \in Users : createSession(userId)
  \/ \E p \in Procs, userId \in Users, sessionId \in RequestedSessionIds, content \in Contents :
       persistSemanticMemory(p, userId, sessionId, content)
  \/ \E p \in Procs : embedTextReturns(p)
  \/ \E p \in Procs : embedTextThrows(p)
  \/ \E p \in Procs : addSemanticChunk(p)
  \/ \E p \in Procs : persistReturns(p)
  \/ \E p \in Procs : persistAbandoned(p)

SpecConcurrent == Init /\ [][NextConcurrent]_vars

\* the routes, one request after the other, with the steps of the call of
\* persistSemanticMemory a request is waiting for
NextRoutes ==
  \/ \E userId \in RouteUsers : route.pc = "idle" /\ createSession(userId)
  \/ \E userId \in RouteUsers, sessionId \in RequestedSessionIds, role \in Roles,
        content \in RouteContents :
       postMessage(userId, sessionId, role, content)
  \/ \E userId \in RouteUsers, sessionId \in RequestedSessionIds, message \in RouteContents :
       postChat(userId, sessionId, message)
  \/ \E userId \in RouteUsers, incoming \in Uploads : postUpload(userId, incoming)
  \/ uploadMessage
  \/ uploadResponds
  \/ routePersists
  \/ routeSkips
  \/ embedTextReturns("p1")
  \/ embedTextThrows("p1")
  \/ addSemanticChunk("p1")
  \/ persistReturns("p1")
  \/ routeResumes
  \/ routeResponds
  \/ uploadLoops
  \/ chatRetrieves
  \/ \E reply \in Replies : routeReplies(reply)
  \/ modelFails
  \/ \E userId \in RouteUsers, messageId \in 0..(nextMessageId - 1),
        editedContent \in Edits \cup {<<>>} :
       postRegenerate(userId, messageId, editedContent)
  \/ deleteMessagesAfter
  \/ regenerateRetrieves

SpecRoutes == Init /\ [][NextRoutes]_vars

(***************************************************************************)
(* The store with the three chunks of a scenario and its query: each text  *)
(* is one chunk of chunkText at the size of the code, embedded by          *)
(* fallbackEmbedding and appended by persistSemanticMemory, in any order   *)
(* and at any time; retrieveContext embeds the query the same way.         *)
(***************************************************************************)
CodeChunkSize == 450

DentistFriday ==
  <<"I", " ", "h", "a", "v", "e", " ", "a", " ", "d", "e", "n", "t", "i",
  "s", "t", " ", "a", "p", "p", "o", "i", "n", "t", "m", "e", "n", "t",
  " ", "F", "r", "i", "d", "a", "y">>

ColorBlue ==
  <<"M", "y", " ", "f", "a", "v", "o", "r", "i", "t", "e", " ", "c", "o",
  "l", "o", "r", " ", "i", "s", " ", "b", "l", "u", "e">>

DentistMonday ==
  <<"D", "e", "n", "t", "i", "s", "t", " ", "a", "p", "p", "o", "i", "n",
  "t", "m", "e", "n", "t", " ", "m", "o", "v", "e", "d", " ", "t", "o",
  " ", "M", "o", "n", "d", "a", "y">>

DentistQuery ==
  <<"W", "h", "e", "n", " ", "i", "s", " ", "m", "y", " ", "d", "e", "n",
  "t", "i", "s", "t", " ", "a", "p", "p", "o", "i", "n", "t", "m", "e",
  "n", "t", "?">>

ScenarioTexts == {DentistFriday, ColorBlue, DentistMonday}

ScenarioUser == "user:a"

\* persistSemanticMemory of a text of the scenario that is not in the store yet
persistScenario(text) ==
  /\ persist["p1"].pc = "idle"
  /\ \A i \in 1..Len(semanticMemory) : semanticMemory[i].textChunk # text
  /\ persist' = [persist EXCEPT !["p1"] =
                   [calling(ScenarioUser, 0, nextMessageId, text) EXCEPT
                      !.chunks = chunkText(text, CodeChunkSize)]]
  /\ nextMessageId' = nextMessageId + 1
  /\ lastOp' = NoOp
  /\ UNCHANGED <<config, standbyMemory, now, sessions, semanticMemory, nextSessionId,
                 nextChunkId, pureVars>>

InitScenario == StoreIdle /\ ChunkIdle /\ ScoreIdle /\ EmbedIdle

NextScenario ==
  \/ Tick
  \/ \E text \in ScenarioTexts : persistScenario(text)
  \/ embedTextReturns("p1")
  \/ addSemanticChunk("p1")
  \/ persistReturns("p1")
  \/ \E limit \in 1..Cardinality(ScenarioTexts) :
       persist["p1"].pc = "idle" /\ retrieveContext(ScenarioUser, DentistQuery, limit)

SpecScenario == InitScenario /\ [][NextScenario]_vars

\* either a run of chunkText on one input, or the store and its operations
InitChunkOrStore == Init \/ InitChunk

StoreNext == ckPc = "idle" /\ scPc = "idle" /\ emPc = "idle" /\ Next

SpecChunkOrStore == InitChunkOrStore /\ [][StoreNext \/ ChunkNext]_vars

\* either the scoring of one chunk, or the store and its operations
InitScoreOrStore == Init \/ InitScore

SpecScoreOrStore == InitScoreOrStore /\ [][StoreNext \/ ScoreNext]_vars

(***************************************************************************)
(* What the claims are about.                                              *)
(***************************************************************************)
SearchReturned == lastOp.op = "searchSemanticMemory" /\ lastOp.outcome = "returned"

idsOf(store) == {store[i].id : i \in 1..Len(store)}

chunkWithId(store, id) == store[CHOOSE i \in 1..Len(store) : store[i].id = id]

storedIds == idsOf(semanticMemory)

storedChunk(id) == chunkWithId(semanticMemory, id)

countOwned(userId) == Cardinality({i \in 1..Len(semanticMemory) : semanticMemory[i].userId = userId})

\* C1: Tenant isolation.  Every entry a search for user A returns carries
\* userId A, and the stored chunk it was made from is owned by A, whatever
\* chunks other users own.
TenantIsolation ==
  SearchReturned =>
    \A i \in 1..Len(lastOp.result) :
      LET entry == lastOp.result[i]
      IN  /\ entry.chunk.userId = lastOp.userId
          /\ entry.chunk.id \in storedIds
          /\ storedChunk(entry.chunk.id).userId = lastOp.userId

\* a search has returned entries while another user owns chunks too
TenantIsolationWitness ==
  /\ SearchReturned
  /\ Len(lastOp.result) >= 1
  /\ \E i \in 1..Len(semanticMemory) : semanticMemory[i].userId # lastOp.userId

\* C2: Top-K ordering.  What a search returns is in descending finalScore, is
\* no longer than the count asked for and no longer than the number of chunks
\* the user owns.
TopKOrdering ==
  SearchReturned =>
    /\ \A i, j \in 1..Len(lastOp.result) :
         i < j => lastOp.result[i].finalScore >= lastOp.result[j].finalScore
    /\ Len(lastOp.result) <= lastOp.count
    /\ Len(lastOp.result) <= countOwned(lastOp.userId)

\* a search of the in-memory store that had to reorder (the chunk stored later
\* scores higher) and to truncate
TopKOrderingWitness ==
  /\ SearchReturned
  /\ ~hasSupabase
  /\ Len(lastOp.result) >= 2
  /\ lastOp.result[1].finalScore > lastOp.result[2].finalScore
  /\ lastOp.result[1].chunk.id > lastOp.result[2].chunk.id
  /\ Len(lastOp.result) = lastOp.count
  /\ countOwned(lastOp.userId) > lastOp.count

\* C3: Write-then-read visibility.  A search for user U that directly follows
\* an addSemanticChunk for U that has returned, with a count of at least the
\* number of chunks U owns, has the new chunk in its result exactly once.
WriteThenReadVisible ==
  [][ ( /\ lastOp.op = "addSemanticChunk"
        /\ lastOp.outcome = "returned"
        /\ lastOp'.op = "searchSemanticMemory"
        /\ lastOp'.outcome = "returned"
        /\ lastOp'.userId = lastOp.chunk.userId
        /\ lastOp'.count >= countOwned(lastOp'.userId) )
      => Cardinality({i \in 1..Len(lastOp'.result) :
                        lastOp'.result[i].chunk.id = lastOp.chunk.id}) = 1 ]_vars

DeleteSessionRemovesChunks ==
  (lastOp.op = "deleteSession" /\ lastOp.outcome = "returned") =>
    \A i \in 1..Len(semanticMemory) :
      ~(semanticMemory[i].userId = lastOp.userId /\ semanticMemory[i].sessionId = lastOp.sessionId)

segmentsOf(content) == chunkText(content, DefaultChunkSize)

\* the chunks in the store that trace to a message, in store order
storedFor(messageId) ==
  SelectSeq(semanticMemory, LAMBDA chunk : chunk.messageIds = <<messageId>>)

PersistEnded(outcome) ==
  lastOp.op = "persistSemanticMemory" /\ lastOp.outcome = outcome

\* C6: No chunk without an embedding reaches the store.  Every stored chunk
\* carries a vector that embedText returns for its text; a call in flight has
\* stored no more chunks than embedText has returned vectors to it, each with
\* the vector returned for it; and when embedText throws for a chunk, or the
\* call is abandoned while it awaits embedText, that chunk is not in the store.
NoChunkWithoutEmbedding ==
  /\ \A i \in 1..Len(semanticMemory) :
       /\ semanticMemory[i].embedding.length > 0
       /\ semanticMemory[i].embedding \in embedTextResults(semanticMemory[i].textChunk)
  /\ \A p \in Procs :
       persist[p].pc # "idle" =>
         /\ Len(persist[p].added) =
              Len(persist[p].embedded) - (IF persist[p].pc = "adding" THEN 1 ELSE 0)
         /\ \A k \in 1..Len(persist[p].added) :
              persist[p].added[k].embedding = persist[p].embedded[k]
         /\ Len(storedFor(persist[p].messageId)) <= Len(persist[p].added)
  /\ (lastOp.op = "persistSemanticMemory" /\ lastOp.at = "embedText") =>
       /\ Len(lastOp.added) = Len(lastOp.embedded)
       /\ Len(lastOp.added) < Len(segmentsOf(lastOp.content))
       /\ Len(storedFor(lastOp.messageId)) <= Len(lastOp.added)
       /\ \A i \in 1..Len(semanticMemory) :
            semanticMemory[i].id \in {lastOp.added[k].id : k \in 1..Len(lastOp.added)}
            \/ semanticMemory[i].messageIds # <<lastOp.messageId>>

\* embedText threw for the second chunk of a message whose first chunk is stored
NoChunkWithoutEmbeddingWitness ==
  /\ PersistEnded("threw")
  /\ lastOp.at = "embedText"
  /\ Len(lastOp.added) = 1
  /\ Len(storedFor(lastOp.messageId)) = 1
  /\ Len(segmentsOf(lastOp.content)) = 2

\* C7: A persistSemanticMemory(userId, sessionId, messageId, content) that has
\* returned has added one chunk per segment of chunkText(content), in the
\* order of the segments, each with that userId and sessionId, messageIds =
\* [messageId], the segment as textChunk and a vector embedText returns for the
\* segment; each was put at the end of the store as it was added; content that
\* chunks to nothing has added none.
PersistAddsOneChunkPerSegment ==
  /\ [](PersistEnded("returned") =>
         LET segments == segmentsOf(lastOp.content)
             added == lastOp.added
         IN  /\ Len(added) = Len(segments)
             /\ \A k \in 1..Len(added) :
                  /\ added[k].userId = lastOp.userId
                  /\ added[k].sessionId = lastOp.sessionId
                  /\ added[k].messageIds = <<lastOp.messageId>>
                  /\ added[k].textChunk = segments[k]
                  /\ added[k].embedding \in embedTextResults(segments[k])
                  /\ \A j \in 1..(k - 1) : added[j].id < added[k].id
             /\ \A i \in 1..Len(semanticMemory) :
                  semanticMemory[i].messageIds = <<lastOp.messageId>> =>
                    \E k \in 1..Len(added) : semanticMemory[i].id = added[k].id)
  /\ [][(lastOp'.op = "addSemanticChunk" /\ lastOp'.outcome = "returned") =>
          semanticMemory' = Append(semanticMemory, lastOp'.chunk)]_vars

\* a message of two segments has been persisted and both chunks are in the store
PersistAddsOneChunkPerSegmentWitness ==
  /\ PersistEnded("returned")
  /\ Len(lastOp.added) = 2
  /\ lastOp.added[1].textChunk = <<"a", "b">>
  /\ lastOp.added[2].textChunk = <<" ", "a">>
  /\ storedFor(lastOp.messageId) = lastOp.added

RECURSIVE Concat(_)
Concat(segments) ==
  IF segments = <<>> THEN <<>> ELSE Head(segments) \o Concat(Tail(segments))

\* the words of a string: its maximal runs of characters that are not whitespace
RECURSIVE wordsFrom(_, _)
wordsFrom(s, word) ==
  IF s = <<>> THEN (IF word = <<>> THEN <<>> ELSE <<word>>)
  ELSE IF Head(s) \in Whitespace
       THEN (IF word = <<>> THEN <<>> ELSE <<word>>) \o wordsFrom(Tail(s), <<>>)
       ELSE wordsFrom(Tail(s), Append(word, Head(s)))

words(s) == wordsFrom(s, <<>>)

\* the words joined by single spaces
RECURSIVE joined(_)
joined(ws) ==
  IF ws = <<>> THEN <<>>
  ELSE IF Len(ws) = 1 THEN ws[1]
  ELSE ws[1] \o <<" ">> \o joined(Tail(ws))

isBlank(s) == \A i \in 1..Len(s) : s[i] \in Whitespace

\* C8: Chunking bounds and reconstruction.  When chunkText(text, size) has
\* returned, size >= 1, its segments are consecutive slices of the trimmed,
\* whitespace-collapsed text (the words of text joined by single spaces), each
\* of at most size characters and all but the last of exactly size, and their
\* concatenation is that text.
ChunkingBoundsAndReconstruction ==
  ckPc = "returned" =>
    LET normalized == joined(words(ckText))
    IN  /\ ckChunks = chunkText(ckText, ckSize)
        /\ \A i \in 1..Len(ckChunks) :
             /\ Len(ckChunks[i]) <= ckSize
             /\ i < Len(ckChunks) => Len(ckChunks[i]) = ckSize
             /\ ckChunks[i] = SubSeq(normalized, (i - 1) * ckSize + 1,
                                     Min(i * ckSize, Len(normalized)))
        /\ Concat(ckChunks) = normalized

\* a text that normalization changes, cut into several segments, the last short
ChunkingBoundsAndReconstructionWitness ==
  /\ ckPc = "returned"
  /\ Len(ckChunks) >= 2
  /\ Len(ckChunks[Len(ckChunks)]) < ckSize
  /\ Concat(ckChunks) # ckText
  /\ \E i \in 1..Len(ckText) : ckText[i] = "\t"

\* C9: chunkText returns the empty sequence for empty and for whitespace-only
\* input and no segment it returns is the empty string; so no chunk in the
\* store, and no chunk a persistSemanticMemory is about to add, has an empty
\* textChunk, and a message of nothing but whitespace adds no chunk.
NoEmptySegments ==
  /\ ckPc = "returned" =>
       /\ ckChunks = chunkText(ckText, ckSize)
       /\ isBlank(ckText) => ckChunks = <<>>
       /\ \A i \in 1..Len(ckChunks) : ckChunks[i] # <<>>
  /\ \A i \in 1..Len(semanticMemory) : semanticMemory[i].textChunk # <<>>
  /\ \A p \in Procs :
       persist[p].pc # "idle" =>
         \A k \in 1..Len(persist[p].chunks) : persist[p].chunks[k] # <<>>
  /\ (PersistEnded("returned") /\ isBlank(lastOp.content)) =>
       lastOp.added = <<>> /\ storedFor(lastOp.messageId) = <<>>

\* chunkText has returned nothing for a text of whitespace only
NoEmptySegmentsWitness ==
  /\ ckPc = "returned"
  /\ Len(ckText) >= 2
  /\ isBlank(ckText)
  /\ ckChunks = <<>>

\* C10: Backend equivalence.  What the durable branch of searchSemanticMemory
\* returns is what the in-memory branch returns for the same chunks, user,
\* query embedding, count and clock: the same chunks in the same order with the
\* same similarity, recency and final scores.
BackendEquivalence ==
  (SearchReturned /\ hasSupabase) =>
    LET expected == searchInMemory(lastOp.userId, lastOp.queryEmbedding, lastOp.count,
                                   lastOp.clock)
    IN  /\ Len(lastOp.result) = Len(expected)
        /\ \A i \in 1..Len(expected) :
             /\ lastOp.result[i].chunk.id = expected[i].chunk.id
             /\ lastOp.result[i].similarityScore = expected[i].similarityScore
             /\ lastOp.result[i].recencyScore = expected[i].recencyScore
             /\ lastOp.result[i].finalScore = expected[i].finalScore

\* C11: With the live embedding provider selected, a failed call of embedText
\* ends the persistSemanticMemory or retrieveContext that made it with the
\* error: no vector is obtained for that text by a second try, and no vector of
\* fallbackEmbedding is in the store, in a call in flight or in a search.
EmbeddingFailurePropagates ==
  /\ hasOpenAiKey =>
       /\ \A i \in 1..Len(semanticMemory) :
            /\ semanticMemory[i].embedding = liveEmbedding(semanticMemory[i].textChunk)
            /\ semanticMemory[i].embedding # fallbackEmbedding(semanticMemory[i].textChunk)
       /\ \A p \in Procs :
            persist[p].pc # "idle" =>
              \A k \in 1..Len(persist[p].embedded) :
                persist[p].embedded[k] = liveEmbedding(persist[p].chunks[k])
       /\ lastOp.op = "searchSemanticMemory" =>
            /\ lastOp.queryEmbedding \in {liveEmbedding(query) : query \in Queries}
            /\ lastOp.queryEmbedding \notin {fallbackEmbedding(query) : query \in Queries}
  /\ (PersistEnded("threw") /\ lastOp.at = "embedText") =>
       /\ hasOpenAiKey
       /\ Len(lastOp.embedded) = Len(lastOp.added)
       /\ Len(lastOp.added) < Len(segmentsOf(lastOp.content))
       /\ Len(storedFor(lastOp.messageId)) <= Len(lastOp.added)
       /\ \A p \in Procs :
            persist[p].pc # "idle" => persist[p].messageId # lastOp.messageId
  /\ (lastOp.op = "retrieveContext" /\ lastOp.outcome = "threw") => hasOpenAiKey

\* embedText has failed in a retrieveContext while chunks are in the store
EmbeddingFailurePropagatesWitness ==
  /\ lastOp.op = "retrieveContext"
  /\ lastOp.outcome = "threw"
  /\ hasOpenAiKey
  /\ semanticMemory # <<>>

\* C12: With the durable store configured, a failed insert ends
\* addSemanticChunk with an error and a failed ranking read ends
\* searchSemanticMemory with an error: the chunk is in neither the table nor
\* the in-memory array, the array stays as it was, and the failed read returns
\* no entries.  Without the durable store neither of them fails.
StoreFailurePropagates ==
  /\ standbyMemory = <<>>
  /\ (PersistEnded("threw") /\ lastOp.at = "addSemanticChunk") =>
       /\ hasSupabase
       /\ Len(lastOp.embedded) = Len(lastOp.added) + 1
       /\ Len(storedFor(lastOp.messageId)) <= Len(lastOp.added)
       /\ \A i \in 1..Len(semanticMemory) :
            semanticMemory[i].messageIds = <<lastOp.messageId>> =>
              \E k \in 1..Len(lastOp.added) : semanticMemory[i].id = lastOp.added[k].id
  /\ (lastOp.op = "searchSemanticMemory" /\ lastOp.outcome = "threw") =>
       /\ hasSupabase
       /\ lastOp.result = <<>>

\* the insert of the second chunk of a message has failed after the first was
\* stored
StoreFailurePropagatesWitness ==
  /\ PersistEnded("threw")
  /\ lastOp.at = "addSemanticChunk"
  /\ Len(lastOp.added) = 1
  /\ Len(storedFor(lastOp.messageId)) = 1
  /\ tableAccepts(newChunk(0, lastOp.userId, lastOp.sessionId, <<>>, <<>>,
                           lastOp.embedded[2], now))

\* what a chunk holds apart from its id and its creation time
contentOf(chunk) ==
  [userId |-> chunk.userId, sessionId |-> chunk.sessionId,
   messageIds |-> chunk.messageIds, textChunk |-> chunk.textChunk,
   embedding |-> chunk.embedding]

\* C13: Concurrent appends.  However the steps of several persistSemanticMemory
\* calls interleave, the store holds every chunk added so far exactly once
\* (one chunk per id handed out, no two with the same id), the chunks a call
\* has added are in the store in the order it added them, and what they hold
\* is fixed by the arguments of the call alone.
ConcurrentAppendsSafe ==
  /\ Len(semanticMemory) = nextChunkId - 1
  /\ idsOf(semanticMemory) = 1..(nextChunkId - 1)
  /\ \A p \in Procs :
       persist[p].pc # "idle" =>
         LET call == persist[p]
         IN  /\ storedFor(call.messageId) = call.added
             /\ \A k \in 1..Len(call.added) :
                  /\ Cardinality({i \in 1..Len(semanticMemory) :
                                    semanticMemory[i] = call.added[k]}) = 1
                  /\ \E embedding \in embedTextResults(segmentsOf(call.content)[k]) :
                       contentOf(call.added[k]) =
                         [userId |-> call.userId, sessionId |-> call.sessionId,
                          messageIds |-> <<call.messageId>>,
                          textChunk |-> segmentsOf(call.content)[k],
                          embedding |-> embedding]
  /\ lastOp.op = "persistSemanticMemory" => storedFor(lastOp.messageId) = lastOp.added

\* two calls for the same user have added their chunks in turns
ConcurrentAppendsSafeWitness ==
  /\ Len(semanticMemory) = 4
  /\ \A p \in Procs : persist[p].pc = "returning"
  /\ \A i \in 1..4 : semanticMemory[i].userId = semanticMemory[1].userId
  /\ semanticMemory[1].messageIds = semanticMemory[3].messageIds
  /\ semanticMemory[2].messageIds = semanticMemory[4].messageIds
  /\ semanticMemory[1].messageIds # semanticMemory[2].messageIds

\* C14: Append-only.  An addSemanticChunk that returns has given its chunk an
\* id that no chunk of the store has and that was not handed out before, and
\* the time of the call as createdAt; the store is the store of before with
\* that one chunk, the record returned, added at its end.
AppendOnly ==
  [][ (lastOp'.op = "addSemanticChunk" /\ lastOp'.outcome = "returned") =>
        LET chunk == lastOp'.chunk
        IN  /\ chunk.id \notin idsOf(semanticMemory)
            /\ chunk.id >= nextChunkId
            /\ chunk.createdAt = now
            /\ Len(semanticMemory') = Len(semanticMemory) + 1
            /\ \A i \in 1..Len(semanticMemory) : semanticMemory'[i] = semanticMemory[i]
            /\ semanticMemory'[Len(semanticMemory')] = chunk ]_vars

\* a chunk has been added, later than the chunk before it in the store
AppendOnlyWitness ==
  /\ lastOp.op = "addSemanticChunk"
  /\ Len(semanticMemory) >= 2
  /\ semanticMemory[Len(semanticMemory)] = lastOp.chunk
  /\ semanticMemory[Len(semanticMemory) - 1].createdAt < lastOp.chunk.createdAt

\* C15: Ranking is a pure read.  A searchSemanticMemory or retrieveContext,
\* whether it returns or throws, leaves the store as it was: the same chunks
\* with the same fields in the same order.
RankingIsPureRead ==
  [][ lastOp'.op \in {"searchSemanticMemory", "retrieveContext"} =>
        /\ semanticMemory' = semanticMemory
        /\ standbyMemory' = standbyMemory
        /\ sessions' = sessions ]_vars

\* a search has returned two chunks in the reverse of their order in the store
RankingIsPureReadWitness ==
  /\ SearchReturned
  /\ ~hasSupabase
  /\ Len(lastOp.result) = 2
  /\ Len(semanticMemory) = 2
  /\ lastOp.result[1].chunk = semanticMemory[2]
  /\ lastOp.result[2].chunk = semanticMemory[1]

RecencyDecayBoundary ==
  scPc \in {"final", "scored"} =>
    LET age == scClock - scChunk.createdAt
    IN  /\ age = 0 => scRecency = Scale
        /\ age = WindowDays => scRecency = 0
        /\ age > WindowDays => scRecency = 0
        /\ (age > 0 /\ age < WindowDays) =>
             /\ scRecency * WindowDays = Scale * (WindowDays - age)
             /\ scRecency > 0
             /\ scRecency < Scale
        /\ scPc = "scored" => scEntry[1].recencyScore = scRecency

\* a chunk 60 days old has been scored
RecencyDecayBoundaryWitness ==
  /\ scPc = "scored"
  /\ scClock - scChunk.createdAt = 2 * WindowDays
  /\ scEntry[1].recencyScore = 0

\* a vector of magnitude 0: every element is 0
isZeroVector(v) == \A i \in 1..Len(v.num) : v.num[i] = 0

FinalScoreFormula ==
  SearchReturned =>
    \A i \in 1..Len(lastOp.result) :
      LET entry == lastOp.result[i]
      IN  /\ entry.finalScore = entry.similarityScore * 8 + entry.recencyScore * 2
          /\ entry.chunk.id \in storedIds
          /\ LET stored == storedChunk(entry.chunk.id)
             IN  /\ entry.similarityScore =
                      cosineSimilarity(stored.embedding, lastOp.queryEmbedding)
                 /\ entry.recencyScore = recencyOf(stored.createdAt, lastOp.clock)
                 /\ \/ entry.chunk = stored
                    \/ hasSupabase /\ entry.chunk = [stored EXCEPT !.embedding = EmptyVector]

\* a search has returned an entry with both scores strictly between 0 and 1
FinalScoreFormulaWitness ==
  /\ SearchReturned
  /\ \E i \in 1..Len(lastOp.result) :
       /\ lastOp.result[i].similarityScore > 0
       /\ lastOp.result[i].similarityScore < Scale
       /\ lastOp.result[i].recencyScore > 0
       /\ lastOp.result[i].recencyScore < Scale

\* element i of a vector, i from 0
elementOf(v, i) == IF i + 1 <= Len(v.num) THEN v.num[i + 1] ELSE 0

\* C20: The fallback embedding of a text has exactly 32 elements, element i
\* being the sum of the character codes at the positions p with p mod 32 = i,
\* divided by max(length, 1); a second call with the same text returns an
\* equal vector.
FallbackEmbeddingDeterministic ==
  emPc = "returned" =>
    /\ emResult.length = 32
    /\ emResult.den = (IF Len(emText) >= 1 THEN Len(emText) ELSE 1)
    /\ \A i \in 0..31 :
         elementOf(emResult, i) =
           Sum([p \in 1..Len(emText) |->
                  IF (p - 1) % 32 = i THEN charCode(emText[p]) ELSE 0])
    /\ emResult = fallbackEmbedding(emText)
    /\ emFirst # EmptyVector => emResult = emFirst

\* the second call has returned for a text longer than the vector
FallbackEmbeddingDeterministicWitness ==
  /\ emPc = "returned"
  /\ emFirst # EmptyVector
  /\ Len(emText) > VectorLength
  /\ elementOf(emResult, 0) = charCode(emText[1]) + charCode(emText[VectorLength + 1])


\* the vector of the mode that the configuration selects
modeEmbedding(input) ==
  IF hasOpenAiKey THEN liveEmbedding(input) ELSE fallbackEmbedding(input)

\* C21: The API key alone selects the embedding mode.  A call of embedText
\* returns the fallback embedding and calls no provider if and only if no key
\* is configured; only a call that reaches the provider throws; and every
\* stored chunk and every query of a search carries the vector of the one
\* mode of the configuration, so indexing and querying use the same mode.
KeySelectsEmbeddingMode ==
  /\ lastOp.op = "embedText" =>
       /\ lastOp.provider <=> hasOpenAiKey
       /\ (lastOp.embedding = fallbackEmbedding(lastOp.input)) <=> ~hasOpenAiKey
       /\ (lastOp.embedding = fallbackEmbedding(lastOp.input)) <=> ~lastOp.provider
  /\ (PersistEnded("threw") /\ lastOp.at = "embedText") => hasOpenAiKey
  /\ (lastOp.op = "retrieveContext" /\ lastOp.outcome = "threw") => hasOpenAiKey
  /\ \A i \in 1..Len(semanticMemory) :
       semanticMemory[i].embedding = modeEmbedding(semanticMemory[i].textChunk)
  /\ lastOp.op = "searchSemanticMemory" =>
       /\ \E query \in Queries : lastOp.queryEmbedding = modeEmbedding(query)
       /\ \A i \in 1..Len(semanticMemory) :
            semanticMemory[i].embedding.length = lastOp.queryEmbedding.length

\* a search with the fallback embedding of its query has run over a store
\* that holds a chunk with a fallback embedding
KeySelectsEmbeddingModeWitness ==
  /\ SearchReturned
  /\ ~hasOpenAiKey
  /\ semanticMemory # <<>>
  /\ lastOp.queryEmbedding.length = VectorLength
  /\ \E query \in Queries : lastOp.queryEmbedding = fallbackEmbedding(query)
  /\ semanticMemory[1].embedding = fallbackEmbedding(semanticMemory[1].textChunk)


\* C22: Every chunk persistSemanticMemory puts in the store has a textChunk
\* that is whitespace-normalized - its only whitespace character is the
\* space, and no two spaces are adjacent - and that is at most the chunk
\* size long (DefaultChunkSize here, 450 in the code).
StoredTextNormalized ==
  \A i \in 1..Len(semanticMemory) :
    LET textChunk == semanticMemory[i].textChunk
    IN  /\ Len(textChunk) <= DefaultChunkSize
        /\ \A k \in 1..Len(textChunk) : textChunk[k] \in Whitespace => textChunk[k] = " "
        /\ \A k \in 1..(Len(textChunk) - 1) :
             ~(textChunk[k] \in Whitespace /\ textChunk[k + 1] \in Whitespace)

\* the store holds the two chunks of a message that has a run of a tab and a
\* space in it, the second of them beginning with the one space left of it
StoredTextNormalizedWitness ==
  /\ PersistEnded("returned")
  /\ lastOp.content = <<" ", "a", "b", "\t", " ", "a">>
  /\ Len(storedFor(lastOp.messageId)) = 2
  /\ storedFor(lastOp.messageId)[2].textChunk = <<" ", "a">>
  /\ Len(storedFor(lastOp.messageId)[1].textChunk) = DefaultChunkSize

\* the message with an id, among those in the store
messageWithId(id) == messages[CHOOSE i \in 1..Len(messages) : messages[i].id = id]

messageIds == {messages[i].id : i \in 1..Len(messages)}

\* a call of persistSemanticMemory with these arguments is for a message that
\* addMessage has stored and returned to the request: it has the id and the
\* content of that message, and its role is not system
forStoredMessage(userId, sessionId, messageId, content) ==
  /\ messageId \in messageIds
  /\ route.message = messageWithId(messageId)
  /\ route.message.role # "system"
  /\ route.message.content = content
  /\ route.message.userId = userId
  /\ route.message.sessionId = sessionId

\* C23: In every route persistSemanticMemory is called for a message only
\* after addMessage has stored that message and returned it - the message is
\* there before the step that makes the call - with the id and the content
\* addMessage returned, and never for a message whose role is system: no
\* chunk traces to a system message.
PersistAfterAddMessage ==
  /\ [][ \/ (persist["p1"].pc = "idle" /\ persist'["p1"].pc # "idle")
         \/ (lastOp'.op = "persistSemanticMemory" /\ lastOp' # lastOp /\ persist["p1"].pc = "idle")
         => LET call == IF persist'["p1"].pc # "idle" THEN persist'["p1"] ELSE lastOp'
            IN  /\ call.messageId \in messageIds
                /\ messageWithId(call.messageId) = route.message
                /\ lastOp.op = "addMessage" /\ lastOp.message = route.message
                /\ forStoredMessage(call.userId, call.sessionId, call.messageId, call.content)
       ]_vars
  /\ [](persist["p1"].pc # "idle" =>
          forStoredMessage(persist["p1"].userId, persist["p1"].sessionId,
                           persist["p1"].messageId, persist["p1"].content))
  /\ [](\A i \in 1..Len(semanticMemory), k \in 1..Len(messages) :
          semanticMemory[i].messageIds = <<messages[k].id>> => messages[k].role # "system")

\* an upload has stored a system message and a user message, and only the
\* user message has chunks
PersistAfterAddMessageWitness ==
  /\ route.kind = "upload"
  /\ route.pc = "persisted"
  /\ Len(messages) = 2
  /\ messages[1].role = "system"
  /\ messages[2].role = "user"
  /\ storedFor(messages[1].id) = <<>>
  /\ Len(storedFor(messages[2].id)) = 2

\* the places of the entries of a result whose chunk has a text
placesOf(result, text) == {i \in 1..Len(result) : result[i].chunk.textChunk = text}

\* the store holds the three chunks of the scenario and nothing else, all of
\* one user and of one creation time
ScenarioStored ==
  /\ Len(semanticMemory) = 3
  /\ {semanticMemory[i].textChunk : i \in 1..3} = ScenarioTexts
  /\ \A i \in 1..3 :
       /\ semanticMemory[i].userId = ScenarioUser
       /\ semanticMemory[i].createdAt = semanticMemory[1].createdAt
       /\ semanticMemory[i].embedding = fallbackEmbedding(semanticMemory[i].textChunk)

\* C24: End-to-end scenario.  With the three chunks appended for one user
\* with fallback embeddings and one creation time, a retrieval with the
\* fallback embedding of "When is my dentist appointment?" ranks both dentist
\* chunks above the color chunk: the color chunk is returned only after both
\* of them, and its finalScore is below theirs.
DentistScenario ==
  (SearchReturned /\ ScenarioStored /\ lastOp.userId = ScenarioUser
     /\ lastOp.queryEmbedding = fallbackEmbedding(DentistQuery)) =>
    LET result == lastOp.result
        color == placesOf(result, ColorBlue)
        friday == placesOf(result, DentistFriday)
        monday == placesOf(result, DentistMonday)
    IN  /\ Len(result) = Min(lastOp.count, 3)
        /\ \A c \in color :
             /\ \E f \in friday : f < c /\ result[f].finalScore > result[c].finalScore
             /\ \E m \in monday : m < c /\ result[m].finalScore > result[c].finalScore
        /\ Len(result) >= 2 => friday # {} /\ monday # {}
        /\ Len(result) = 3 => color = {3}

\* the retrieval has returned all three chunks, the color chunk last although
\* it was appended first
DentistScenarioWitness ==
  /\ SearchReturned
  /\ ScenarioStored
  /\ semanticMemory[1].textChunk = ColorBlue
  /\ Len(lastOp.result) = 3
  /\ lastOp.result[1].chunk.textChunk = DentistMonday
  /\ lastOp.result[2].chunk.textChunk = DentistFriday
  /\ lastOp.result[3].chunk.textChunk = ColorBlue


\* the places in the store of the chunks a user owns
ownedPlaces(userId) == {i \in 1..Len(semanticMemory) : semanticMemory[i].userId = userId}

\* C25: Top-K selection of the in-memory search.  The result has
\* min(count, chunks of the user) entries, each for another chunk of the
\* user; every chunk of the user that is not returned scores a finalScore
\* less than or equal to that of every returned entry; and when the user owns
\* at most count chunks all of them are returned, whatever their scores.
TopKSelection ==
  (SearchReturned /\ ~hasSupabase) =>
    LET result == lastOp.result
        owned == ownedPlaces(lastOp.userId)
        returned == {result[k].chunk.id : k \in 1..Len(result)}
        left == {i \in owned : semanticMemory[i].id \notin returned}
    IN  /\ Len(result) = Min(lastOp.count, Cardinality(owned))
        /\ Cardinality(returned) = Len(result)
        /\ returned \subseteq {semanticMemory[i].id : i \in owned}
        /\ \A i \in left, k \in 1..Len(result) :
             scoreChunk(semanticMemory[i], lastOp.queryEmbedding, lastOp.clock).finalScore
               <= result[k].finalScore
        /\ Cardinality(owned) <= lastOp.count => left = {}

\* a search for one entry has left out a chunk of the user that scores less
\* than the one returned
TopKSelectionWitness ==
  /\ SearchReturned
  /\ ~hasSupabase
  /\ lastOp.count = 1
  /\ Len(lastOp.result) = 1
  /\ \E i \in ownedPlaces(lastOp.userId) :
       /\ semanticMemory[i].id # lastOp.result[1].chunk.id
       /\ scoreChunk(semanticMemory[i], lastOp.queryEmbedding, lastOp.clock).finalScore
            < lastOp.result[1].finalScore


\* C26: persistSemanticMemory is not atomic.  When the embedding or the
\* append of chunk k of a message fails, the call ends with the error, the
\* store is left as it was before the failing step, with chunks 1..k-1 of the
\* message in it, and no chunk from k on is stored: the store holds a strict
\* prefix of the chunks of the message.  Other calls of persistSemanticMemory
\* may run at the same time.
PersistNotAtomic ==
  /\ [](PersistEnded("threw") =>
         LET segments == segmentsOf(lastOp.content)
             kept == storedFor(lastOp.messageId)
         IN  /\ lastOp.at \in {"embedText", "addSemanticChunk"}
             /\ \A p \in Procs :
                  persist[p].pc # "idle" => persist[p].messageId # lastOp.messageId
             /\ kept = lastOp.added
             /\ Len(kept) < Len(segments)
             /\ \A j \in 1..Len(kept) : kept[j].textChunk = segments[j])
  /\ [][(lastOp'.op = "persistSemanticMemory" /\ lastOp'.outcome = "threw"
           /\ lastOp' # lastOp)
          => semanticMemory' = semanticMemory]_vars

\* the insert of the second chunk of a message has failed, and the first
\* chunk of the message is in the store
PersistNotAtomicWitness ==
  /\ PersistEnded("threw")
  /\ lastOp.at = "addSemanticChunk"
  /\ Len(segmentsOf(lastOp.content)) = 2
  /\ Len(storedFor(lastOp.messageId)) = 1
  /\ storedFor(lastOp.messageId)[1].textChunk = segmentsOf(lastOp.content)[1]


\* n / size rounded up, for size >= 1
ceilOf(n, size) == (n + size - 1) \div size

\* C27: chunkText terminates for every text and every size >= 1, after
\* exactly ceil(n / size) iterations of its loop, n being the length of the
\* normalized text, and start is greater after every iteration than before it;
\* with size 0 and a normalized text that is not empty it does not terminate:
\* start stays 0, the condition of the loop stays true and the call never
\* returns.
ChunkTextTermination ==
  /\ (ckSize >= 1) ~> (ckPc = "returned")
  /\ []((ckPc = "returned" /\ ckSize >= 1) =>
          /\ ckIters = ceilOf(Len(ckNormalized), ckSize)
          /\ Len(ckChunks) = ckIters
          /\ ckNormalized = normalize(ckText))
  /\ [][(ckIters' = ckIters + 1 /\ ckSize >= 1) => ckStart' > ckStart]_vars
  /\ []((ckSize = 0 /\ ckPc = "loop") =>
          /\ ckNormalized # <<>>
          /\ ckStart = 0
          /\ ckStart < Len(ckNormalized))
  /\ []((ckSize = 0 /\ ckPc = "returned") => ckNormalized = <<>> /\ ckIters = 0)

\* a normalized text of three characters has been chunked at size 2 in two
\* iterations
ChunkTextTerminationWitness ==
  /\ ckPc = "returned"
  /\ ckSize = 2
  /\ Len(ckNormalized) = 3
  /\ ckIters = 2
  /\ Len(ckChunks) = 2


\* C28: Within a chat turn the message of the user is chunked and appended
\* before the retrieval of the turn runs.  The retrieval is made only after
\* persistSemanticMemory has returned for that message; when it has run, the
\* chunks of the message are in the store under the user of the turn, one
\* for each segment of its content; and with the in-memory store and a
\* message that is not blank its result is not empty.
ChatRetrievalSeesMessage ==
  /\ [][(route'.kind = "chat" /\ route'.pc = "retrieved" /\ route.pc # "retrieved")
          => /\ route.pc = "persisted"
             /\ lastOp.op = "persistSemanticMemory"
             /\ lastOp.outcome = "returned"
             /\ lastOp.messageId = route.message.id
             /\ lastOp'.op = "searchSemanticMemory"
             /\ lastOp'.userId = route.userId ]_vars
  /\ []((route.kind = "chat" /\ route.pc = "retrieved") =>
          LET message == route.message
              kept == storedFor(message.id)
              segments == segmentsOf(message.content)
          IN  /\ SearchReturned
              /\ message.role = "user"
              /\ Len(kept) = Len(segments)
              /\ \A k \in 1..Len(kept) :
                   /\ kept[k].textChunk = segments[k]
                   /\ kept[k].userId = lastOp.userId
              /\ (~hasSupabase /\ ~isBlank(message.content)) =>
                   /\ lastOp.result # <<>>
                   /\ Cardinality(ownedPlaces(lastOp.userId)) <= lastOp.count =>
                        \A k \in 1..Len(kept) :
                          \E e \in 1..Len(lastOp.result) :
                            lastOp.result[e].chunk.id = kept[k].id)

\* the retrieval of a turn has returned the two chunks of the message of the
\* turn, which are the only chunks in the store
ChatRetrievalSeesMessageWitness ==
  /\ route.kind = "chat"
  /\ route.pc = "retrieved"
  /\ ~hasSupabase
  /\ Len(semanticMemory) = 2
  /\ Len(lastOp.result) = 2
  /\ \A e \in 1..2 : lastOp.result[e].chunk.messageIds = <<route.message.id>>


\* the chunk traces to a message that is no longer stored
orphaned(chunk) ==
  \A k \in 1..Len(chunk.messageIds) : chunk.messageIds[k] \notin messageIds

\* the chunk traces to a stored message whose content no longer has its text
outdated(chunk) ==
  \E k \in 1..Len(chunk.messageIds) :
    /\ chunk.messageIds[k] \in messageIds
    /\ LET segments == segmentsOf(messageWithId(chunk.messageIds[k]).content)
       IN  \A s \in 1..Len(segments) : segments[s] # chunk.textChunk

\* C29: Deleting or editing messages leaves semantic memory unchanged.  The
\* steps updateMessage and deleteMessagesAfter of a regeneration change no
\* chunk store; and the retrieval of that regeneration, made on the in-memory
\* store for a user who owns no more chunks than the limit, returns every
\* chunk of the user that traces to a deleted or an edited message, with the
\* text it was stored with.
MessageEditsKeepMemory ==
  /\ [][(route'.kind = "regenerate" /\ route'.pc \in {"edited", "pruned"}
           /\ route'.pc # route.pc)
          => /\ semanticMemory' = semanticMemory
             /\ standbyMemory' = standbyMemory]_vars
  /\ []((route.kind = "regenerate" /\ route.pc = "retrieved" /\ ~hasSupabase
           /\ Cardinality(ownedPlaces(route.userId)) <= TurnLimit) =>
          /\ SearchReturned
          /\ \A i \in ownedPlaces(route.userId) :
               (orphaned(semanticMemory[i]) \/ outdated(semanticMemory[i])) =>
                 \E e \in 1..Len(lastOp.result) :
                   /\ lastOp.result[e].chunk.id = semanticMemory[i].id
                   /\ lastOp.result[e].chunk.textChunk = semanticMemory[i].textChunk
                   /\ lastOp.result[e].chunk.messageIds = semanticMemory[i].messageIds)

\* a regeneration edited the message and deleted the reply after it, and its
\* retrieval returned a chunk of the deleted reply and a chunk with the text
\* the edited message had before
MessageEditsKeepMemoryWitness ==
  /\ route.kind = "regenerate"
  /\ route.pc = "retrieved"
  /\ ~hasSupabase
  /\ SearchReturned
  /\ \E e \in 1..Len(lastOp.result) : orphaned(lastOp.result[e].chunk)
  /\ \E e \in 1..Len(lastOp.result) :
       /\ outdated(lastOp.result[e].chunk)
       /\ lastOp.result[e].chunk.messageIds = <<route.message.id>>


MigrationReturned ==
  lastOp.op = "migrateGuestDataToUser" /\ lastOp.outcome = "returned"

\* C30: Guest migration moves memory between tenants.  A
\* migrateGuestDataToUser(guestUserId, authenticatedUserId) that returns, the
\* ids being different and not empty, leaves every chunk of the guest with
\* the id of the authenticated user and nothing else of it changed, and every
\* chunk of any other user as it was; while it is the last operation no chunk
\* has the id of the guest; a retrieval made next for the guest returns
\* nothing, and one made next for the authenticated user on the in-memory
\* store, the user owning no more chunks than the limit, returns every chunk
\* of that user, the migrated ones included.
GuestMigrationMovesMemory ==
  /\ [][(lastOp'.op = "migrateGuestDataToUser" /\ lastOp'.outcome = "returned"
           /\ (lastOp' # lastOp \/ semanticMemory' # semanticMemory)) =>
          /\ lastOp'.guestUserId # "" /\ lastOp'.authenticatedUserId # ""
          /\ lastOp'.guestUserId # lastOp'.authenticatedUserId
          /\ Len(semanticMemory') = Len(semanticMemory)
          /\ \A i \in 1..Len(semanticMemory) :
               IF semanticMemory[i].userId = lastOp'.guestUserId
               THEN semanticMemory'[i] =
                      [semanticMemory[i] EXCEPT !.userId = lastOp'.authenticatedUserId]
               ELSE semanticMemory'[i] = semanticMemory[i] ]_vars
  /\ [](MigrationReturned => ownedPlaces(lastOp.guestUserId) = {})
  /\ [][(MigrationReturned /\ lastOp'.op = "searchSemanticMemory"
           /\ lastOp'.outcome = "returned") =>
          /\ lastOp'.userId = lastOp.guestUserId => lastOp'.result = <<>>
          /\ (lastOp'.userId = lastOp.authenticatedUserId /\ ~hasSupabase
                /\ Cardinality(ownedPlaces(lastOp'.userId)) <= lastOp'.count) =>
               \A i \in ownedPlaces(lastOp'.userId) :
                 \E e \in 1..Len(lastOp'.result) :
                   lastOp'.result[e].chunk.id = semanticMemory[i].id ]_vars

\* a retrieval for the authenticated user has returned, under that user's
\* id, a chunk that a call still in flight had stored for the guest, and the
\* store has no chunk of the guest
GuestMigrationMovesMemoryWitness ==
  /\ SearchReturned
  /\ lastOp.userId \in AuthenticatedIds
  /\ \A guestUserId \in GuestIds : ownedPlaces(guestUserId) = {}
  /\ \E p \in Procs :
       /\ persist[p].pc # "idle"
       /\ \E k \in 1..Len(persist[p].added) :
            LET was == persist[p].added[k]
            IN  /\ was.userId \in GuestIds
                /\ \E e \in 1..Len(lastOp.result) :
                     /\ lastOp.result[e].chunk.id = was.id
                     /\ lastOp.result[e].chunk.userId = lastOp.userId
                     /\ lastOp.result[e].chunk.textChunk = was.textChunk

=============================================================================
